---------------------------- MODULE Spec2Model ----------------------------
(***************************************************************************)
(* A model of the chat backend (Convex functions) of Real_time_chat_app.   *)
(*                                                                         *)
(* Every mutation handler is one atomic action: the platform runs each     *)
(* mutation as a serializable transaction, and an exception thrown by a    *)
(* handler aborts all of its writes.  A handler that throws is a step that *)
(* leaves the tables unchanged and records the error in ret.  Queries are  *)
(* pure functions of the tables and are modelled as operators returning    *)
(* either [err |-> "Not found"] or the result.                             *)
(*                                                                         *)
(* The upload queue of the ChatApp component is modelled as the state of   *)
(* one browser tab.  Every event handler, and every stretch of an async    *)
(* function between two awaits, is one atomic action applied to the        *)
(* current state: the state updates it makes are functional updates, and   *)
(* React applies the updates of one synchronous stretch together before    *)
(* effects run again.  A server call made by the queue either resolves or  *)
(* rejects; what it made is recorded in uploadLog.  The same tab's text    *)
(* send (handleSend, handleRetrySend) is modelled in the same way, with    *)
(* one sendMessage call in flight at a time.  The message pages of the     *)
(* open conversation are modelled for the viewer "A": the live newest page *)
(* and the older pages are results of messages.list over the tables, and   *)
(* the effects that store them are one action each.  The other calls of    *)
(* the tab (markAsRead, typing, heartbeat) are not part of the client      *)
(* model; the mutations themselves are.                                    *)
(*                                                                         *)
(* Tables are modelled with the fields some handler reads.  Fields that    *)
(* are written but never read by any handler are left out: joinedAt of     *)
(* conversationMembers, createdAt of blocks, updatedAt of privacySettings, *)
(* mediaStorageId of messages, createdBy of conversations.  The users      *)
(* table is the fixed set Users (users are never deleted); display names   *)
(* are not modelled, a user is shown by its id.                            *)
(*                                                                         *)
(* Text is a sequence of characters so that trim() is a real conversion.   *)
(* An optional field holding a number is 0 when absent where the code      *)
(* reads it with "?? 0" or tests it for truthiness (Date.now() is never 0).*)
(***************************************************************************)
EXTENDS Integers, Sequences, FiniteSets, TLC

VARIABLES
  now,            \* the value Date.now() returns to the next mutation
  blocks,         \* table blocks: set of [blockerId, blockedId]
  privacySettings,\* table privacySettings: set of rows, at most one per user
  conversations,  \* table conversations: row i has _id i
  members,        \* table conversationMembers, in insertion order
  messages,       \* table messages: row i has _id i
  messageEdits,   \* table messageEdits, in insertion order
  messageStars,   \* table messageStars: set of [messageId, userId]
  messageReactions,\* table messageReactions, in insertion order
  typingStatus,   \* table typingStatus: set of [conversationId, userId, updatedAt]
  ret,            \* the last mutation call and its outcome
  editLog,        \* history: per message, the bodies it was given (send, then each edit)
  userPresence,   \* table userPresence: set of [userId, lastSeenAt]
  uploadQueue,    \* client: the upload queue items, in enqueue order
  isUploadingMedia,       \* client: an upload attempt is running
  selectedConversationId, \* client: the open conversation, 0 for none
  draftMessage,   \* client: the text in the compose box
  replyToMessage, \* client: the message being replied to, 0 for none
  recording,      \* client: the running voice recording and what its onstop closed over
  upload,         \* client: the running processQueue call and what it closed over
  issued,         \* ids given out so far: queue item ids, upload URLs, storage ids
  uploadLog,      \* history: the server calls the upload queue has made
  failedMessage,  \* client: the payload of the text send that failed, NoPayload for null
  sendError,      \* client: the error line under the compose box, "" for null
  sendCall,        \* client: the running handleSend / handleRetrySend call
  latestMessagePage,      \* client: the live newest page, NoPage while it loads
  olderMessages,          \* client: the rows of the older pages loaded so far
  requestedOlderCursor,   \* client: beforeCreatedAt of the older page asked for, 0 for null
  oldestLoadedCreatedAt,  \* client: the running oldest boundary, 0 for null
  hasMoreHistory          \* client: older messages may exist

dbvars == <<blocks, privacySettings, conversations, members, messages,
            messageEdits, messageStars, messageReactions, typingStatus>>
vars == <<now, blocks, privacySettings, conversations, members, messages,
          messageEdits, messageStars, messageReactions, typingStatus, ret, editLog,
          userPresence, uploadQueue, isUploadingMedia, selectedConversationId, draftMessage,
          replyToMessage, recording, upload, issued, uploadLog,
          failedMessage, sendError, sendCall, latestMessagePage, olderMessages,
          requestedOlderCursor, oldestLoadedCreatedAt, hasMoreHistory>>
\* the state of one browser tab (the ChatApp component).  The compose area,
\* with the upload queue's buttons, is rendered while a conversation is open
\* the text send that failed and the call that is running
textvars == <<failedMessage, sendError, sendCall>>
\* the message pages held for the open conversation
pagevars == <<latestMessagePage, olderMessages, requestedOlderCursor,
              oldestLoadedCreatedAt, hasMoreHistory>>
clientvars == <<uploadQueue, isUploadingMedia, selectedConversationId, draftMessage,
                replyToMessage, recording, upload, issued, uploadLog,
                textvars, pagevars>>

----------------------------------------------------------------------------
(* Bounds of the model *)

MaxTime == 2
MaxConversations == 1
MaxMessages == 1

Users == {"A", "B", "C"}

(* Program constants *)

DefaultLimit == 40
MinLimit == 1
MaxLimit == 100
ReplySnippetLen == 30

----------------------------------------------------------------------------
(* Text *)

Space == " "
IsSpace(ch) == ch = Space

RECURSIVE TrimStart(_)
TrimStart(s) ==
  IF s = <<>> THEN <<>>
  ELSE IF IsSpace(Head(s)) THEN TrimStart(Tail(s)) ELSE s

RECURSIVE TrimEnd(_)
TrimEnd(s) ==
  IF s = <<>> THEN <<>>
  ELSE IF IsSpace(s[Len(s)]) THEN TrimEnd(SubSeq(s, 1, Len(s) - 1)) ELSE s

Trim(s) == TrimEnd(TrimStart(s))

Slice(s, n) == SubSeq(s, 1, IF Len(s) < n THEN Len(s) ELSE n)

Min(a, b) == IF a < b THEN a ELSE b
Max(a, b) == IF a > b THEN a ELSE b

SeqToSet(s) == {s[i] : i \in 1..Len(s)}

----------------------------------------------------------------------------
(* lib/blocks.ts, lib/privacy.ts *)

\* ctx.db: the tables a handler reads
Ctx ==
  [blocks |-> blocks, privacySettings |-> privacySettings,
   conversations |-> conversations, members |-> members, messages |-> messages,
   messageEdits |-> messageEdits, messageStars |-> messageStars,
   messageReactions |-> messageReactions, typingStatus |-> typingStatus,
   userPresence |-> userPresence]

BlockRow(a, b) == [blockerId |-> a, blockedId |-> b]

\* mutant: only the caller's own outgoing edge is looked up
isBlockedBetweenOneWay(ctx, userAId, userBId) ==
  BlockRow(userAId, userBId) \in ctx.blocks

isBlockedBetween(ctx, userAId, userBId) ==
  LET aBlockedB == BlockRow(userAId, userBId) \in ctx.blocks
      bBlockedA == BlockRow(userBId, userAId) \in ctx.blocks
  IN  IF aBlockedB THEN TRUE ELSE bBlockedA

DefaultPrivacy(userId) ==
  [userId |-> userId, readReceiptsEnabled |-> TRUE,
   lastSeenVisibility |-> "everyone", whoCanMessage |-> "everyone"]

getOrCreatePrivacySettings(ctx, userId) ==
  IF \E r \in ctx.privacySettings : r.userId = userId
  THEN CHOOSE r \in ctx.privacySettings : r.userId = userId
  ELSE DefaultPrivacy(userId)

\* mutant: only the recipient's setting is consulted
canMessageUserRecipientOnly(ctx, senderId, recipientId) ==
  LET recipientSettings == getOrCreatePrivacySettings(ctx, recipientId)
  IN  IF recipientSettings.whoCanMessage = "nobody" THEN FALSE
      ELSE TRUE

canMessageUser(ctx, senderId, recipientId) ==
  LET senderSettings == getOrCreatePrivacySettings(ctx, senderId)
      recipientSettings == getOrCreatePrivacySettings(ctx, recipientId)
  IN  IF senderSettings.whoCanMessage = "nobody" THEN FALSE
      ELSE IF recipientSettings.whoCanMessage = "nobody" THEN FALSE
      ELSE TRUE

----------------------------------------------------------------------------
(* Index lookups *)

ConvIds == 1..Len(conversations)
MsgIds == 1..Len(messages)

\* members of a conversation, as indices into the table, in index order
MemberIdxOf(mem, c) == {i \in 1..Len(mem) : mem[i].conversationId = c}

\* by_conversationId_userId ... .unique(): the row's index, or 0 when none
MembershipIdx(mem, c, u) ==
  IF \E i \in 1..Len(mem) : mem[i].conversationId = c /\ mem[i].userId = u
  THEN CHOOSE i \in 1..Len(mem) : mem[i].conversationId = c /\ mem[i].userId = u
  ELSE 0

\* members.find((member) => member.userId !== me): first such row, or 0
FirstOtherIdx(mem, c, me) ==
  LET S == {i \in MemberIdxOf(mem, c) : mem[i].userId # me}
  IN  IF S = {} THEN 0 ELSE CHOOSE i \in S : \A j \in S : i <= j

NoCall == [op |-> "none", caller |-> "-", other |-> "-", id |-> 0, err |-> "ok", val |-> 0]
Call(op, caller, other, id, err, val) ==
  [op |-> op, caller |-> caller, other |-> other, id |-> id, err |-> err, val |-> val]

\* no voice recording is running; no processQueue call is running
NoRecording == [on |-> FALSE, draftMessage |-> <<>>, replyToMessage |-> 0]
NoItem == [id |-> 0, file |-> [type |-> <<"", "">>, size |-> 0], progress |-> 0,
           status |-> "none", error |-> "", caption |-> <<>>, replyToMessageId |-> 0]
NoUpload == [step |-> "none", item |-> NoItem, conversationId |-> 0,
             uploadUrl |-> 0, storageId |-> 0]
\* failedMessage is null; no handleSend or handleRetrySend call is running
NoPayload == [conversationId |-> 0, body |-> <<>>, replyToMessageId |-> 0]
NoSending == [step |-> "none", payload |-> NoPayload]
\* useQuery gave undefined: the page is loading or the query is skipped
NoPage == [loaded |-> FALSE, items |-> <<>>, oldestCreatedAt |-> 0, hasMore |-> FALSE]

Init ==
  /\ now = 1
  /\ blocks = {}
  /\ privacySettings = {}
  /\ conversations = <<>>
  /\ members = <<>>
  /\ messages = <<>>
  /\ messageEdits = <<>>
  /\ messageStars = {}
  /\ messageReactions = <<>>
  /\ typingStatus = {}
  /\ ret = NoCall
  /\ editLog = <<>>
  /\ userPresence = {}
  /\ uploadQueue = <<>>
  /\ isUploadingMedia = FALSE
  /\ selectedConversationId = 0
  /\ draftMessage = <<>>
  /\ replyToMessage = 0
  /\ recording = NoRecording
  /\ upload = NoUpload
  /\ issued = [items |-> 0, urls |-> 0, storageIds |-> 0]
  /\ uploadLog = <<>>
  /\ failedMessage = NoPayload
  /\ sendError = ""
  /\ sendCall = NoSending
  /\ latestMessagePage = NoPage
  /\ olderMessages = <<>>
  /\ requestedOlderCursor = 0
  /\ oldestLoadedCreatedAt = 0
  /\ hasMoreHistory = TRUE

Idle == ret = NoCall

\* the clock advances between mutations
Tick ==
  /\ Idle
  /\ now' = now + 1
  /\ UNCHANGED <<dbvars, ret, editLog, userPresence, clientvars>>

Fail(op, caller, other, id, err) ==
  /\ ret' = Call(op, caller, other, id, err, 0)
  /\ UNCHANGED <<now, dbvars, editLog, userPresence>>

\* a longer time passes between mutations
Elapse(ms) ==
  /\ Idle
  /\ now' = now + ms
  /\ UNCHANGED <<dbvars, ret, editLog, userPresence, clientvars>>

\* the outcome of the call is delivered to the caller, and the next call is made
Return ==
  /\ ret # NoCall
  /\ ret' = NoCall
  /\ UNCHANGED <<now, dbvars, editLog, userPresence, clientvars>>

----------------------------------------------------------------------------
(* users.ts *)

\* mutant: blocking also hides the blocker's conversations with the target
toggleBlockUserHiding(me, targetUserId) ==
  IF targetUserId = me
  THEN Fail("toggleBlockUser", me, targetUserId, 0, "Cannot block yourself")
  ELSE
    /\ blocks' = IF BlockRow(me, targetUserId) \in blocks
                 THEN blocks \ {BlockRow(me, targetUserId)}
                 ELSE blocks \cup {BlockRow(me, targetUserId)}
    /\ members' = [i \in 1..Len(members) |->
                     IF /\ members[i].userId = me
                        /\ BlockRow(me, targetUserId) \notin blocks
                        /\ MembershipIdx(members, members[i].conversationId,
                                         targetUserId) # 0
                     THEN [members[i] EXCEPT !.isDeleted = TRUE]
                     ELSE members[i]]
    /\ ret' = Call("toggleBlockUser", me, targetUserId, 0, "ok",
                   IF BlockRow(me, targetUserId) \in blocks THEN 0 ELSE 1)
    /\ UNCHANGED <<messageReactions, now, privacySettings, conversations, messages,
                   messageEdits, messageStars, typingStatus, editLog, userPresence>>

toggleBlockUser(me, targetUserId) ==
  IF targetUserId = me
  THEN Fail("toggleBlockUser", me, targetUserId, 0, "Cannot block yourself")
  ELSE
    /\ blocks' = IF BlockRow(me, targetUserId) \in blocks
                 THEN blocks \ {BlockRow(me, targetUserId)}
                 ELSE blocks \cup {BlockRow(me, targetUserId)}
    /\ ret' = Call("toggleBlockUser", me, targetUserId, 0, "ok",
                   IF BlockRow(me, targetUserId) \in blocks THEN 0 ELSE 1)
    /\ UNCHANGED <<messageReactions, now, privacySettings, conversations, members, messages,
                   messageEdits, messageStars, typingStatus, editLog, userPresence>>

\* v.optional(...) arguments: <<>> when not given, <<x>> when given
Given(x) == <<x>>
NotGiven == <<>>
OrElse(opt, dflt) == IF opt = <<>> THEN dflt ELSE opt[1]

updateMyPrivacySettings(me, readReceiptsEnabled, lastSeenVisibility, whoCanMessage) ==
  LET current == getOrCreatePrivacySettings(Ctx, me)
      row == [userId |-> me,
              readReceiptsEnabled |-> OrElse(readReceiptsEnabled, current.readReceiptsEnabled),
              lastSeenVisibility |-> OrElse(lastSeenVisibility, current.lastSeenVisibility),
              whoCanMessage |-> OrElse(whoCanMessage, current.whoCanMessage)]
  IN  /\ privacySettings' = {r \in privacySettings : r.userId # me} \cup {row}
      /\ ret' = Call("updateMyPrivacySettings", me, "-", 0, "ok", 0)
      /\ UNCHANGED <<messageReactions, now, blocks, conversations, members, messages,
                     messageEdits, messageStars, typingStatus, editLog, userPresence>>

updateTyping(me, conversationId, isTyping) ==
  LET mi == MembershipIdx(members, conversationId, me)
      mine == {r \in typingStatus : r.conversationId = conversationId /\ r.userId = me}
  IN  IF mi = 0
      THEN Fail("updateTyping", me, "-", conversationId, "Not found")
      ELSE
        /\ typingStatus' =
             IF ~isTyping THEN typingStatus \ mine
             ELSE (typingStatus \ mine) \cup
                  {[conversationId |-> conversationId, userId |-> me, updatedAt |-> now]}
        /\ ret' = Call("updateTyping", me, "-", conversationId, "ok", 0)
        /\ UNCHANGED <<messageReactions, now, blocks, privacySettings, conversations, members, messages,
                       messageEdits, messageStars, editLog, userPresence>>

----------------------------------------------------------------------------
(* presence.ts: mutations *)

\* heartbeat: the caller's one row of userPresence is stamped with Date.now()
heartbeat(me) ==
  /\ userPresence' = {r \in userPresence : r.userId # me} \cup
                       {[userId |-> me, lastSeenAt |-> now]}
  /\ ret' = Call("heartbeat", me, "-", 0, "ok", 0)
  /\ UNCHANGED <<now, dbvars, editLog>>

----------------------------------------------------------------------------
(* conversations.ts: mutations *)

MemberRow(c, u, role, lastReadAt) ==
  [conversationId |-> c, userId |-> u, role |-> role,
   lastReadAt |-> lastReadAt, isDeleted |-> FALSE]

ConversationRow(isGroup, name, updatedAt) ==
  [isGroup |-> isGroup, name |-> name, updatedAt |-> updatedAt,
   lastMessageText |-> <<>>, lastMessageAt |-> 0]

\* mutant: the scan skips the memberships the caller has hidden
DirectMatchesVisibleOnly(me, otherUserId) ==
  {i \in 1..Len(members) :
     /\ members[i].userId = me
     /\ ~members[i].isDeleted
     /\ ~conversations[members[i].conversationId].isGroup
     /\ Cardinality(MemberIdxOf(members, members[i].conversationId)) = 2
     /\ \E j \in MemberIdxOf(members, members[i].conversationId) :
          members[j].userId = otherUserId}

\* the caller's membership rows of direct conversations with otherUserId
\* (the loop of getOrCreateDirectConversation returns at the first of them)
DirectMatches(me, otherUserId) ==
  {i \in 1..Len(members) :
     /\ members[i].userId = me
     /\ ~conversations[members[i].conversationId].isGroup
     /\ Cardinality(MemberIdxOf(members, members[i].conversationId)) = 2
     /\ \E j \in MemberIdxOf(members, members[i].conversationId) :
          members[j].userId = otherUserId}

\* mutant: restoring the conversation for the caller restores it for the other
\* member too
getOrCreateDirectConversationRestoringBoth(me, otherUserId) ==
  LET op == "getOrCreateDirectConversation"
      found == DirectMatches(me, otherUserId)
      first == CHOOSE i \in found : \A j \in found : i <= j
      conversationId == Len(conversations) + 1
  IN  IF me = otherUserId
      THEN Fail(op, me, otherUserId, 0, "Cannot message yourself")
      ELSE IF isBlockedBetween(Ctx, me, otherUserId)
      THEN Fail(op, me, otherUserId, 0, "Cannot message this user")
      ELSE IF ~canMessageUser(Ctx, me, otherUserId)
      THEN Fail(op, me, otherUserId, 0, "Messaging disabled by privacy settings")
      ELSE IF found # {}
      THEN
        /\ members' = IF members[first].isDeleted
                      THEN [i \in 1..Len(members) |->
                              IF i = first
                              THEN [members[i] EXCEPT !.isDeleted = FALSE,
                                                      !.lastReadAt = now]
                              ELSE IF members[i].conversationId
                                        = members[first].conversationId
                              THEN [members[i] EXCEPT !.isDeleted = FALSE]
                              ELSE members[i]]
                      ELSE members
        /\ ret' = Call(op, me, otherUserId, 0, "ok", members[first].conversationId)
        /\ UNCHANGED <<messageReactions, now, blocks, privacySettings, conversations, messages,
                       messageEdits, messageStars, typingStatus, editLog, userPresence>>
      ELSE
        /\ conversations' = Append(conversations, ConversationRow(FALSE, <<>>, now))
        /\ members' = members \o <<MemberRow(conversationId, me, "member", now),
                                   MemberRow(conversationId, otherUserId, "member", 0)>>
        /\ ret' = Call(op, me, otherUserId, 0, "ok", conversationId)
        /\ UNCHANGED <<messageReactions, now, blocks, privacySettings, messages,
                       messageEdits, messageStars, typingStatus, editLog, userPresence>>

getOrCreateDirectConversation(me, otherUserId) ==
  LET op == "getOrCreateDirectConversation"
      found == DirectMatches(me, otherUserId)
      first == CHOOSE i \in found : \A j \in found : i <= j
      conversationId == Len(conversations) + 1
  IN  IF me = otherUserId
      THEN Fail(op, me, otherUserId, 0, "Cannot message yourself")
      ELSE IF isBlockedBetween(Ctx, me, otherUserId)
      THEN Fail(op, me, otherUserId, 0, "Cannot message this user")
      ELSE IF ~canMessageUser(Ctx, me, otherUserId)
      THEN Fail(op, me, otherUserId, 0, "Messaging disabled by privacy settings")
      ELSE IF found # {}
      THEN
        /\ members' = IF members[first].isDeleted
                      THEN [members EXCEPT ![first].isDeleted = FALSE,
                                           ![first].lastReadAt = now]
                      ELSE members
        /\ ret' = Call(op, me, otherUserId, 0, "ok", members[first].conversationId)
        /\ UNCHANGED <<messageReactions, now, blocks, privacySettings, conversations, messages,
                       messageEdits, messageStars, typingStatus, editLog, userPresence>>
      ELSE
        /\ conversations' = Append(conversations, ConversationRow(FALSE, <<>>, now))
        /\ members' = members \o <<MemberRow(conversationId, me, "member", now),
                                   MemberRow(conversationId, otherUserId, "member", 0)>>
        /\ ret' = Call(op, me, otherUserId, 0, "ok", conversationId)
        /\ UNCHANGED <<messageReactions, now, blocks, privacySettings, messages,
                       messageEdits, messageStars, typingStatus, editLog, userPresence>>

markAsRead(me, conversationId) ==
  LET mi == MembershipIdx(members, conversationId, me)
  IN  IF mi = 0 \/ (mi # 0 /\ members[mi].isDeleted)
      THEN Fail("markAsRead", me, "-", conversationId, "Not found")
      ELSE
        /\ members' = [members EXCEPT ![mi].lastReadAt = now]
        /\ ret' = Call("markAsRead", me, "-", conversationId, "ok", 0)
        /\ UNCHANGED <<messageReactions, now, blocks, privacySettings, conversations, messages,
                       messageEdits, messageStars, typingStatus, editLog, userPresence>>

deleteConversationForMe(me, conversationId) ==
  LET mi == MembershipIdx(members, conversationId, me)
      op == "deleteConversationForMe"
  IN  IF mi = 0
      THEN Fail(op, me, "-", conversationId, "Not found")
      ELSE IF members[mi].isDeleted
      THEN /\ ret' = Call(op, me, "-", conversationId, "ok", 0)
           /\ UNCHANGED <<now, dbvars, editLog, userPresence>>
      ELSE
        /\ members' = [members EXCEPT ![mi].isDeleted = TRUE, ![mi].lastReadAt = now]
        /\ typingStatus' = {r \in typingStatus :
                              ~(r.conversationId = conversationId /\ r.userId = me)}
        /\ ret' = Call(op, me, "-", conversationId, "ok", 0)
        /\ UNCHANGED <<messageReactions, now, blocks, privacySettings, conversations, messages,
                       messageEdits, messageStars, editLog, userPresence>>

\* Array.from(new Set(ids)): first occurrences, in order
RECURSIVE Dedupe(_)
Dedupe(s) ==
  IF s = <<>> THEN <<>>
  ELSE LET init == Dedupe(SubSeq(s, 1, Len(s) - 1))
           x == s[Len(s)]
       IN  IF x \in SeqToSet(init) THEN init ELSE Append(init, x)

Without(s, u) == SelectSeq(s, LAMBDA x : x # u)

createGroupConversation(me, name, memberIds) ==
  LET op == "createGroupConversation"
      trimmedName == Trim(name)
      filtered == Without(Dedupe(memberIds), me)
      conversationId == Len(conversations) + 1
  IN  IF trimmedName = <<>>
      THEN Fail(op, me, "-", 0, "Group name is required")
      ELSE IF Len(filtered) < 2
      THEN Fail(op, me, "-", 0, "Select at least 2 other users")
      ELSE
        /\ conversations' = Append(conversations, ConversationRow(TRUE, trimmedName, now))
        /\ members' = members \o <<MemberRow(conversationId, me, "owner", now)>> \o
                        [k \in 1..Len(filtered) |->
                           MemberRow(conversationId, filtered[k], "member", 0)]
        /\ ret' = Call(op, me, "-", 0, "ok", conversationId)
        /\ UNCHANGED <<messageReactions, now, blocks, privacySettings, messages,
                       messageEdits, messageStars, typingStatus, editLog, userPresence>>

\* mutant: a hidden membership is not restored, a new row is inserted
RECURSIVE AddEachInsertingAgain(_, _, _)
AddEachInsertingAgain(mem, conversationId, ids) ==
  IF ids = <<>> THEN mem
  ELSE LET memberId == Head(ids)
           existing == MembershipIdx(mem, conversationId, memberId)
           nextMem ==
             IF existing # 0 /\ ~mem[existing].isDeleted
             THEN mem
             ELSE Append(mem, MemberRow(conversationId, memberId, "member", 0))
       IN  AddEachInsertingAgain(nextMem, conversationId, Tail(ids))

\* the loop of addGroupMembers over the ids still to add
RECURSIVE AddEach(_, _, _)
AddEach(mem, conversationId, ids) ==
  IF ids = <<>> THEN mem
  ELSE LET memberId == Head(ids)
           existing == MembershipIdx(mem, conversationId, memberId)
           nextMem ==
             IF existing # 0
             THEN IF mem[existing].isDeleted
                  THEN [mem EXCEPT ![existing].isDeleted = FALSE]
                  ELSE mem
             ELSE Append(mem, MemberRow(conversationId, memberId, "member", 0))
       IN  AddEach(nextMem, conversationId, Tail(ids))

addGroupMembers(me, conversationId, memberIds) ==
  LET op == "addGroupMembers"
      mi == MembershipIdx(members, conversationId, me)
      unique == Without(Dedupe(memberIds), me)
  IN  IF mi = 0 \/ (mi # 0 /\ members[mi].isDeleted)
      THEN Fail(op, me, "-", conversationId, "Not found")
      ELSE IF members[mi].role \notin {"owner", "admin"}
      THEN Fail(op, me, "-", conversationId, "Forbidden")
      ELSE IF ~conversations[conversationId].isGroup
      THEN Fail(op, me, "-", conversationId, "Not found")
      ELSE
        /\ members' = AddEach(members, conversationId, unique)
        /\ ret' = Call(op, me, "-", conversationId, "ok", 0)
        /\ UNCHANGED <<messageReactions, now, blocks, privacySettings, conversations, messages,
                       messageEdits, messageStars, typingStatus, editLog, userPresence>>

removeGroupMember(me, conversationId, targetUserId) ==
  LET op == "removeGroupMember"
      mi == MembershipIdx(members, conversationId, me)
      ti == MembershipIdx(members, conversationId, targetUserId)
  IN  IF mi = 0 \/ (mi # 0 /\ members[mi].isDeleted)
      THEN Fail(op, me, targetUserId, conversationId, "Not found")
      ELSE IF ti = 0 \/ (ti # 0 /\ members[ti].isDeleted)
      THEN Fail(op, me, targetUserId, conversationId, "Not found")
      ELSE IF members[mi].role = "member"
      THEN Fail(op, me, targetUserId, conversationId, "Forbidden")
      ELSE IF members[mi].role = "admin" /\ members[ti].role # "member"
      THEN Fail(op, me, targetUserId, conversationId, "Forbidden")
      ELSE
        /\ members' = [members EXCEPT ![ti].isDeleted = TRUE, ![ti].lastReadAt = now]
        /\ ret' = Call(op, me, targetUserId, conversationId, "ok", 0)
        /\ UNCHANGED <<messageReactions, now, blocks, privacySettings, conversations, messages,
                       messageEdits, messageStars, typingStatus, editLog, userPresence>>

\* mutant: the target's role is not looked at
updateGroupMemberRoleOfAnyone(me, conversationId, targetUserId, role) ==
  LET op == "updateGroupMemberRole"
      mi == MembershipIdx(members, conversationId, me)
      ti == MembershipIdx(members, conversationId, targetUserId)
  IN  IF mi = 0 \/ (mi # 0 /\ (members[mi].isDeleted \/ members[mi].role # "owner"))
      THEN Fail(op, me, targetUserId, conversationId, "Forbidden")
      ELSE IF ti = 0 \/ (ti # 0 /\ members[ti].isDeleted)
      THEN Fail(op, me, targetUserId, conversationId, "Not found")
      ELSE
        /\ members' = [members EXCEPT ![ti].role = role]
        /\ ret' = Call(op, me, targetUserId, conversationId, "ok", 0)
        /\ UNCHANGED <<messageReactions, now, blocks, privacySettings, conversations, messages,
                       messageEdits, messageStars, typingStatus, editLog, userPresence>>

updateGroupMemberRole(me, conversationId, targetUserId, role) ==
  LET op == "updateGroupMemberRole"
      mi == MembershipIdx(members, conversationId, me)
      ti == MembershipIdx(members, conversationId, targetUserId)
  IN  IF mi = 0 \/ (mi # 0 /\ (members[mi].isDeleted \/ members[mi].role # "owner"))
      THEN Fail(op, me, targetUserId, conversationId, "Forbidden")
      ELSE IF ti = 0 \/ (ti # 0 /\ members[ti].isDeleted)
      THEN Fail(op, me, targetUserId, conversationId, "Not found")
      ELSE IF members[ti].role = "owner"
      THEN Fail(op, me, targetUserId, conversationId, "Cannot change owner role")
      ELSE
        /\ members' = [members EXCEPT ![ti].role = role]
        /\ ret' = Call(op, me, targetUserId, conversationId, "ok", 0)
        /\ UNCHANGED <<messageReactions, now, blocks, privacySettings, conversations, messages,
                       messageEdits, messageStars, typingStatus, editLog, userPresence>>

----------------------------------------------------------------------------
(* messages.ts: mutations *)

MessageRow(c, sender, body, replyTo, mediaType, createdAt) ==
  [conversationId |-> c, senderId |-> sender, body |-> body,
   replyToMessageId |-> replyTo, mediaType |-> mediaType,
   createdAt |-> createdAt, deleted |-> FALSE]

ReplyGlyph == <<"reply-arrow", " ">>
Colon == <<":", " ">>
ReplyWord == <<"R", "e", "p", "l", "y">>
MediaGlyph(mediaType) ==
  IF mediaType = "image" THEN <<"camera">>
  ELSE IF mediaType = "video" THEN <<"clapper">>
  ELSE <<"microphone">>
MediaWord(mediaType) ==
  IF mediaType = "image" THEN <<"P", "h", "o", "t", "o">>
  ELSE IF mediaType = "video" THEN <<"V", "i", "d", "e", "o">>
  ELSE <<"V", "o", "i", "c", "e", " ", "n", "o", "t", "e">>

\* mutant: the block relation is not consulted before sending
SendGateNoBlock(me, conversationId) ==
  LET mi == MembershipIdx(members, conversationId, me)
      oi == FirstOtherIdx(members, conversationId, me)
  IN  IF mi = 0 \/ (mi # 0 /\ members[mi].isDeleted) THEN "Not found"
      ELSE IF conversationId \notin ConvIds THEN "Not found"
      ELSE IF ~conversations[conversationId].isGroup /\ oi # 0
              /\ ~canMessageUser(Ctx, me, members[oi].userId)
      THEN "Messaging disabled by privacy settings"
      ELSE "ok"

\* mutant: the privacy settings are consulted before the block relation
SendGatePrivacyFirst(me, conversationId) ==
  LET mi == MembershipIdx(members, conversationId, me)
      oi == FirstOtherIdx(members, conversationId, me)
  IN  IF mi = 0 \/ (mi # 0 /\ members[mi].isDeleted) THEN "Not found"
      ELSE IF conversationId \notin ConvIds THEN "Not found"
      ELSE IF ~conversations[conversationId].isGroup /\ oi # 0
      THEN IF ~canMessageUser(Ctx, me, members[oi].userId)
           THEN "Messaging disabled by privacy settings"
           ELSE IF isBlockedBetween(Ctx, me, members[oi].userId)
           THEN "Cannot send message"
           ELSE "ok"
      ELSE "ok"

\* the checks send and sendMedia share (messages.ts 233-267, 341-375):
\* the error of the first failing one, or "ok"
SendGate(me, conversationId) ==
  LET mi == MembershipIdx(members, conversationId, me)
      oi == FirstOtherIdx(members, conversationId, me)
  IN  IF mi = 0 \/ (mi # 0 /\ members[mi].isDeleted) THEN "Not found"
      ELSE IF conversationId \notin ConvIds THEN "Not found"
      ELSE IF ~conversations[conversationId].isGroup /\ oi # 0
      THEN IF isBlockedBetween(Ctx, me, members[oi].userId) THEN "Cannot send message"
           ELSE IF ~canMessageUser(Ctx, me, members[oi].userId)
           THEN "Messaging disabled by privacy settings"
           ELSE "ok"
      ELSE "ok"

\* mutant: the reply target's conversation is not compared
ReplyTargetInAnyConversation(conversationId, replyToMessageId) ==
  replyToMessageId \in MsgIds

ReplyTargetOk(conversationId, replyToMessageId) ==
  /\ replyToMessageId \in MsgIds
  /\ messages[replyToMessageId].conversationId = conversationId

\* mutant: the sender's typing row is left in place
AfterInsertKeepingTyping(me, conversationId, lastMessageText) ==
  LET mi == MembershipIdx(members, conversationId, me)
  IN  /\ conversations' = [conversations EXCEPT
                             ![conversationId].updatedAt = now,
                             ![conversationId].lastMessageText = lastMessageText,
                             ![conversationId].lastMessageAt = now]
      /\ members' = [i \in 1..Len(members) |->
                       IF i = mi THEN [members[i] EXCEPT !.lastReadAt = now]
                       ELSE IF members[i].conversationId = conversationId
                               /\ members[i].userId # me /\ members[i].isDeleted
                       THEN [members[i] EXCEPT !.isDeleted = FALSE]
                       ELSE members[i]]
      /\ UNCHANGED typingStatus

\* the writes send and sendMedia share after the message row is inserted
AfterInsert(me, conversationId, lastMessageText) ==
  LET mi == MembershipIdx(members, conversationId, me)
  IN  /\ conversations' = [conversations EXCEPT
                             ![conversationId].updatedAt = now,
                             ![conversationId].lastMessageText = lastMessageText,
                             ![conversationId].lastMessageAt = now]
      /\ members' = [i \in 1..Len(members) |->
                       IF i = mi THEN [members[i] EXCEPT !.lastReadAt = now]
                       ELSE IF members[i].conversationId = conversationId
                               /\ members[i].userId # me /\ members[i].isDeleted
                       THEN [members[i] EXCEPT !.isDeleted = FALSE]
                       ELSE members[i]]
      /\ typingStatus' = {r \in typingStatus :
                            ~(r.conversationId = conversationId /\ r.userId = me)}

send(me, conversationId, rawBody, replyToMessageId) ==
  LET gate == SendGate(me, conversationId)
      body == Trim(rawBody)
      replyTarget == messages[replyToMessageId]
      replySnippet ==
        IF replyTarget.deleted THEN ReplyWord
        ELSE IF Slice(Trim(replyTarget.body), ReplySnippetLen) = <<>> THEN ReplyWord
        ELSE Slice(Trim(replyTarget.body), ReplySnippetLen)
  IN  IF gate # "ok"
      THEN Fail("send", me, "-", conversationId, gate)
      ELSE IF body = <<>>
      THEN Fail("send", me, "-", conversationId, "Message cannot be empty")
      ELSE IF replyToMessageId # 0 /\ ~ReplyTargetOk(conversationId, replyToMessageId)
      THEN Fail("send", me, "-", conversationId, "Invalid reply target")
      ELSE
        /\ messages' = Append(messages,
             MessageRow(conversationId, me, body, replyToMessageId, "none", now))
        /\ AfterInsert(me, conversationId,
             IF replyToMessageId # 0
             THEN ReplyGlyph \o replySnippet \o Colon \o body
             ELSE body)
        /\ editLog' = Append(editLog, <<body>>)
        /\ ret' = Call("send", me, "-", conversationId, "ok", Len(messages) + 1)
        /\ UNCHANGED <<messageReactions, now, blocks, privacySettings, messageEdits, messageStars,
                       userPresence>>

sendMedia(me, conversationId, mediaType, rawCaption, replyToMessageId) ==
  LET gate == SendGate(me, conversationId)
      caption == Trim(rawCaption)
  IN  IF gate # "ok"
      THEN Fail("sendMedia", me, "-", conversationId, gate)
      ELSE IF replyToMessageId # 0 /\ ~ReplyTargetOk(conversationId, replyToMessageId)
      THEN Fail("sendMedia", me, "-", conversationId, "Invalid reply target")
      ELSE
        /\ messages' = Append(messages,
             MessageRow(conversationId, me, caption, replyToMessageId, mediaType, now))
        /\ AfterInsert(me, conversationId,
             IF caption # <<>>
             THEN MediaGlyph(mediaType) \o <<" ">> \o caption
             ELSE MediaGlyph(mediaType) \o <<" ">> \o MediaWord(mediaType))
        /\ editLog' = Append(editLog, <<caption>>)
        /\ ret' = Call("sendMedia", me, "-", conversationId, "ok", 0)
        /\ UNCHANGED <<messageReactions, now, blocks, privacySettings, messageEdits, messageStars,
                       userPresence>>

\* mutant: the deleted message keeps its body
deleteOwnMessageKeepingBody(me, messageId) ==
  IF messageId \notin MsgIds
  THEN Fail("deleteOwnMessage", me, "-", messageId, "Message not found")
  ELSE IF messages[messageId].senderId # me
  THEN Fail("deleteOwnMessage", me, "-", messageId, "Forbidden")
  ELSE
    /\ messages' = [messages EXCEPT ![messageId].deleted = TRUE]
    /\ ret' = Call("deleteOwnMessage", me, "-", messageId, "ok", 0)
    /\ UNCHANGED <<messageReactions, now, blocks, privacySettings, conversations, members,
                   messageEdits, messageStars, typingStatus, editLog, userPresence>>

\* mutant: any caller may delete the message
deleteOwnMessageByAnyone(me, messageId) ==
  IF messageId \notin MsgIds
  THEN Fail("deleteOwnMessage", me, "-", messageId, "Message not found")
  ELSE
    /\ messages' = [messages EXCEPT ![messageId].deleted = TRUE,
                                    ![messageId].body = <<>>]
    /\ ret' = Call("deleteOwnMessage", me, "-", messageId, "ok", 0)
    /\ UNCHANGED <<messageReactions, now, blocks, privacySettings, conversations, members,
                   messageEdits, messageStars, typingStatus, editLog, userPresence>>

deleteOwnMessage(me, messageId) ==
  IF messageId \notin MsgIds
  THEN Fail("deleteOwnMessage", me, "-", messageId, "Message not found")
  ELSE IF messages[messageId].senderId # me
  THEN Fail("deleteOwnMessage", me, "-", messageId, "Forbidden")
  ELSE
    /\ messages' = [messages EXCEPT ![messageId].deleted = TRUE,
                                    ![messageId].body = <<>>]
    /\ ret' = Call("deleteOwnMessage", me, "-", messageId, "ok", 0)
    /\ UNCHANGED <<messageReactions, now, blocks, privacySettings, conversations, members,
                   messageEdits, messageStars, typingStatus, editLog, userPresence>>

EditRow(messageId, editorId, previousBody, editedAt) ==
  [messageId |-> messageId, editorId |-> editorId,
   previousBody |-> previousBody, editedAt |-> editedAt]

\* the messageEdits row editOwnMessage inserts
NewEditRow(me, messageId) ==
  EditRow(messageId, me, messages[messageId].body, now)

\* mutant: an edit that repeats the current body is accepted but not recorded
editOwnMessageSkipSame(me, messageId, rawBody) ==
  LET op == "editOwnMessage"
      nextBody == Trim(rawBody)
  IN  IF messageId \notin MsgIds
      THEN Fail(op, me, "-", messageId, "Message not found")
      ELSE IF messages[messageId].senderId # me
      THEN Fail(op, me, "-", messageId, "Forbidden")
      ELSE IF messages[messageId].deleted
      THEN Fail(op, me, "-", messageId, "Cannot edit deleted message")
      ELSE IF nextBody = <<>>
      THEN Fail(op, me, "-", messageId, "Message cannot be empty")
      ELSE
        /\ messageEdits' = IF nextBody = messages[messageId].body THEN messageEdits
                           ELSE Append(messageEdits, NewEditRow(me, messageId))
        /\ messages' = [messages EXCEPT ![messageId].body = nextBody]
        /\ editLog' = [editLog EXCEPT ![messageId] = Append(@, nextBody)]
        /\ ret' = Call(op, me, "-", messageId, "ok", 0)
        /\ UNCHANGED <<messageReactions, now, blocks, privacySettings, conversations, members,
                       messageStars, typingStatus, userPresence>>

editOwnMessage(me, messageId, rawBody) ==
  LET op == "editOwnMessage"
      nextBody == Trim(rawBody)
  IN  IF messageId \notin MsgIds
      THEN Fail(op, me, "-", messageId, "Message not found")
      ELSE IF messages[messageId].senderId # me
      THEN Fail(op, me, "-", messageId, "Forbidden")
      ELSE IF messages[messageId].deleted
      THEN Fail(op, me, "-", messageId, "Cannot edit deleted message")
      ELSE IF nextBody = <<>>
      THEN Fail(op, me, "-", messageId, "Message cannot be empty")
      ELSE
        /\ messageEdits' = Append(messageEdits, NewEditRow(me, messageId))
        /\ messages' = [messages EXCEPT ![messageId].body = nextBody]
        /\ editLog' = [editLog EXCEPT ![messageId] = Append(@, nextBody)]
        /\ ret' = Call(op, me, "-", messageId, "ok", 0)
        /\ UNCHANGED <<messageReactions, now, blocks, privacySettings, conversations, members,
                       messageStars, typingStatus, userPresence>>

toggleStar(me, messageId) ==
  LET op == "toggleStar"
      mi == MembershipIdx(members, messages[messageId].conversationId, me)
      row == [messageId |-> messageId, userId |-> me]
  IN  IF messageId \notin MsgIds
      THEN Fail(op, me, "-", messageId, "Message not found")
      ELSE IF mi = 0 \/ (mi # 0 /\ members[mi].isDeleted)
      THEN Fail(op, me, "-", messageId, "Not found")
      ELSE
        /\ messageStars' = IF row \in messageStars
                           THEN messageStars \ {row}
                           ELSE messageStars \cup {row}
        /\ ret' = Call(op, me, "-", messageId, "ok", IF row \in messageStars THEN 0 ELSE 1)
        /\ UNCHANGED <<messageReactions, now, blocks, privacySettings, conversations, members, messages,
                       messageEdits, typingStatus, editLog, userPresence>>

\* messages.ts 8-21: the emoji are named, not drawn
ALLOWED_REACTIONS ==
  {"thumbs up", "red heart", "tears of joy", "open mouth", "crying", "fire",
   "party popper", "folded hands", "eyes", "heart eyes", "sunglasses", "thinking"}

ReactionRow(messageId, userId, emoji) ==
  [messageId |-> messageId, userId |-> userId, emoji |-> emoji]

\* by_messageId_userId_emoji: the indices of the matching rows
ReactionIdx(messageId, userId, emoji) ==
  {i \in 1..Len(messageReactions) :
     messageReactions[i] = ReactionRow(messageId, userId, emoji)}

\* ctx.db.delete: the table without row i
RemoveAt(s, i) == [k \in 1..(Len(s) - 1) |-> IF k < i THEN s[k] ELSE s[k + 1]]

\* mutant: the existing reaction is not looked up, every call inserts
toggleReactionAlwaysInsert(me, messageId, emoji) ==
  LET op == "toggleReaction"
      mi == MembershipIdx(members, messages[messageId].conversationId, me)
  IN  IF emoji \notin ALLOWED_REACTIONS
      THEN Fail(op, me, emoji, messageId, "Invalid reaction")
      ELSE IF messageId \notin MsgIds
      THEN Fail(op, me, emoji, messageId, "Message not found")
      ELSE IF mi = 0 \/ (mi # 0 /\ members[mi].isDeleted)
      THEN Fail(op, me, emoji, messageId, "Not found")
      ELSE
        /\ messageReactions' = Append(messageReactions, ReactionRow(messageId, me, emoji))
        /\ ret' = Call(op, me, emoji, messageId, "ok", 1)
        /\ UNCHANGED <<now, blocks, privacySettings, conversations, members, messages,
                       messageEdits, messageStars, typingStatus, editLog, userPresence>>

\* .unique() throws when several rows match; no write is made then
toggleReaction(me, messageId, emoji) ==
  LET op == "toggleReaction"
      mi == MembershipIdx(members, messages[messageId].conversationId, me)
      existing == ReactionIdx(messageId, me, emoji)
  IN  IF emoji \notin ALLOWED_REACTIONS
      THEN Fail(op, me, emoji, messageId, "Invalid reaction")
      ELSE IF messageId \notin MsgIds
      THEN Fail(op, me, emoji, messageId, "Message not found")
      ELSE IF mi = 0 \/ (mi # 0 /\ members[mi].isDeleted)
      THEN Fail(op, me, emoji, messageId, "Not found")
      ELSE IF Cardinality(existing) > 1
      THEN Fail(op, me, emoji, messageId, "unique() query returned more than one result")
      ELSE
        /\ messageReactions' =
             IF existing # {}
             THEN RemoveAt(messageReactions, CHOOSE i \in existing : TRUE)
             ELSE Append(messageReactions, ReactionRow(messageId, me, emoji))
        /\ ret' = Call(op, me, emoji, messageId, "ok", IF existing # {} THEN 0 ELSE 1)
        /\ UNCHANGED <<now, blocks, privacySettings, conversations, members, messages,
                       messageEdits, messageStars, typingStatus, editLog, userPresence>>

----------------------------------------------------------------------------
(* Queries.  Each takes ctx, the tables it reads, as the handlers do. *)

NotFound == [err |-> "Not found"]

\* index by_conversationId_createdAt: the ids of a conversation's messages,
\* ascending by createdAt, then by insertion.  The k-th entry is the message
\* that k - 1 others precede
ByCreatedAt(msgs, S) ==
  [k \in 1..Cardinality(S) |->
     CHOOSE m \in S :
       Cardinality({x \in S :
          \/ msgs[x].createdAt < msgs[m].createdAt
          \/ (msgs[x].createdAt = msgs[m].createdAt /\ x < m)}) = k - 1]

ConvMessageIds(ctx, c) ==
  ByCreatedAt(ctx.messages,
              {m \in 1..Len(ctx.messages) : ctx.messages[m].conversationId = c})

\* .order("desc").take(n), then reversed: the last n of the ascending order
LastN(s, n) == IF Len(s) <= n THEN s ELSE SubSeq(s, Len(s) - n + 1, Len(s))

\* the membership rows of a conversation, in index order
ConvMembers(ctx, c) == SelectSeq(ctx.members, LAMBDA r : r.conversationId = c)

\* mutant: the member's privacy settings are not consulted
seenByOfIgnoringPrivacy(ctx, message) ==
  LET others == SelectSeq(ConvMembers(ctx, message.conversationId),
                  LAMBDA member : ~member.isDeleted /\ member.userId # message.senderId)
      visible == SelectSeq(others,
                  LAMBDA member : ~(member.lastReadAt < message.createdAt))
  IN  [k \in 1..Len(visible) |-> visible[k].userId]

\* messages.ts 120-141: the members surfaced as having seen the message
seenByOf(ctx, message) ==
  LET others == SelectSeq(ConvMembers(ctx, message.conversationId),
                  LAMBDA member : ~member.isDeleted /\ member.userId # message.senderId)
      visible == SelectSeq(others,
                  LAMBDA member :
                    /\ getOrCreatePrivacySettings(ctx, member.userId).readReceiptsEnabled
                    /\ ~(member.lastReadAt < message.createdAt))
  IN  [k \in 1..Len(visible) |-> visible[k].userId]

\* mutant: hidden memberships count as recipients
statusOfCountingHidden(ctx, me, message) ==
  LET recipientMembers == SelectSeq(ConvMembers(ctx, message.conversationId),
                  LAMBDA member : member.userId # message.senderId)
  IN  IF message.senderId # me THEN "null"
      ELSE IF Len(seenByOf(ctx, message)) > 0 THEN "read"
      ELSE IF Len(recipientMembers) > 0 THEN "delivered"
      ELSE "sent"

\* messages.ts 143-154
statusOf(ctx, me, message) ==
  LET visibleSeenBy == seenByOf(ctx, message)
      isOwn == message.senderId = me
      recipientMembers == SelectSeq(ConvMembers(ctx, message.conversationId),
                  LAMBDA member : ~member.isDeleted /\ member.userId # message.senderId)
      isDelivered == Len(recipientMembers) > 0
  IN  IF ~isOwn THEN "null"
      ELSE IF Len(visibleSeenBy) > 0 THEN "read"
      ELSE IF isDelivered THEN "delivered"
      ELSE "sent"

DeletedPlaceholder == <<"This message was deleted">>
UnavailablePlaceholder == <<"Original message unavailable">>

MessageEditsOf(ctx, messageId) ==
  SelectSeq(ctx.messageEdits, LAMBDA e : e.messageId = messageId)

\* messages.ts 83-192: one item of the page
listItem(ctx, me, messageId) ==
  LET message == ctx.messages[messageId]
      edits == MessageEditsOf(ctx, messageId)
      replyId == message.replyToMessageId
  IN  [id |-> messageId,
       body |-> message.body,
       deleted |-> message.deleted,
       createdAt |-> message.createdAt,
       editedAt |-> IF Len(edits) > 0 THEN edits[Len(edits)].editedAt ELSE 0,
       editCount |-> Len(edits),
       isStarred |-> [messageId |-> messageId, userId |-> me] \in ctx.messageStars,
       status |-> statusOf(ctx, me, message),
       seenBy |-> seenByOf(ctx, message),
       mediaType |-> message.mediaType,
       replyTo |->
         IF replyId = 0 THEN <<>>
         ELSE IF replyId \in 1..Len(ctx.messages)
         THEN <<[messageId |-> replyId,
                 senderId |-> ctx.messages[replyId].senderId,
                 body |-> IF ctx.messages[replyId].deleted THEN DeletedPlaceholder
                          ELSE ctx.messages[replyId].body,
                 mediaType |-> ctx.messages[replyId].mediaType]>>
         ELSE <<[messageId |-> replyId, senderId |-> "-",
                 body |-> UnavailablePlaceholder, mediaType |-> "none"]>>,
       senderId |-> message.senderId,
       isOwn |-> message.senderId = me]

\* messages.ts 32-61 (and the same gate of the other handlers): "ok" or "Not found"
listGate(ctx, me, conversationId) ==
  LET mi == MembershipIdx(ctx.members, conversationId, me)
      oi == FirstOtherIdx(ctx.members, conversationId, me)
  IN  IF mi = 0 \/ (mi # 0 /\ ctx.members[mi].isDeleted) THEN "Not found"
      ELSE IF conversationId \notin 1..Len(ctx.conversations) THEN "Not found"
      ELSE IF ~ctx.conversations[conversationId].isGroup /\ oi # 0
              /\ isBlockedBetween(ctx, me, ctx.members[oi].userId)
      THEN "Not found"
      ELSE "ok"

takeCountOf(limit) == Min(Max(OrElse(limit, DefaultLimit), MinLimit), MaxLimit)

\* messages.ts list: beforeCreatedAt is 0 when not given (0 is falsy in the code)
list(ctx, me, conversationId, beforeCreatedAt, limit) ==
  LET all == ConvMessageIds(ctx, conversationId)
      older == SelectSeq(all, LAMBDA m : ctx.messages[m].createdAt < beforeCreatedAt)
      orderedMessages == LastN(IF beforeCreatedAt # 0 THEN older ELSE all,
                               takeCountOf(limit))
      oldestCreatedAt == IF Len(orderedMessages) > 0
                         THEN ctx.messages[orderedMessages[1]].createdAt ELSE 0
  IN  IF listGate(ctx, me, conversationId) # "ok" THEN NotFound
      ELSE [err |-> "ok",
            items |-> [k \in 1..Len(orderedMessages) |->
                         listItem(ctx, me, orderedMessages[k])],
            oldestCreatedAt |-> oldestCreatedAt,
            hasMore |-> /\ oldestCreatedAt # 0
                        /\ \E k \in 1..Len(all) :
                             ctx.messages[all[k]].createdAt < oldestCreatedAt]

\* messages.ts getEditHistory (sorted by editedAt, newest first; ties keep order)
RECURSIVE SortEditsDesc(_)
SortEditsDesc(edits) ==
  IF edits = <<>> THEN <<>>
  ELSE LET k == CHOOSE i \in 1..Len(edits) : \A j \in 1..Len(edits) :
                  \/ edits[i].editedAt > edits[j].editedAt
                  \/ (edits[i].editedAt = edits[j].editedAt /\ i <= j)
       IN  <<edits[k]>> \o
           SortEditsDesc(SubSeq(edits, 1, k - 1) \o SubSeq(edits, k + 1, Len(edits)))

getEditHistory(ctx, me, messageId) ==
  LET mi == MembershipIdx(ctx.members, ctx.messages[messageId].conversationId, me)
  IN  IF messageId \notin 1..Len(ctx.messages) THEN NotFound
      ELSE IF mi = 0 \/ (mi # 0 /\ ctx.members[mi].isDeleted) THEN NotFound
      ELSE [err |-> "ok", edits |-> SortEditsDesc(MessageEditsOf(ctx, messageId))]

\* messages.ts listStarred: conversationId is 0 when not given.  The result is
\* the set of rows (their order, by starredAt, is not modelled)
listStarred(ctx, me, conversationId) ==
  {[messageId |-> star.messageId,
    conversationId |-> ctx.messages[star.messageId].conversationId,
    body |-> ctx.messages[star.messageId].body,
    mediaType |-> ctx.messages[star.messageId].mediaType,
    createdAt |-> ctx.messages[star.messageId].createdAt] :
     star \in {st \in ctx.messageStars :
        /\ st.userId = me
        /\ st.messageId \in 1..Len(ctx.messages)
        /\ ~(conversationId # 0
             /\ ctx.messages[st.messageId].conversationId # conversationId)
        /\ LET mi == MembershipIdx(ctx.members,
                                   ctx.messages[st.messageId].conversationId, me)
           IN  mi # 0 /\ ~ctx.members[mi].isDeleted}}

\* text.toLowerCase().includes(text): s contains t as a contiguous run
Includes(s, t) ==
  \E k \in 0..(Len(s) - Len(t)) : SubSeq(s, k + 1, k + Len(t)) = t

\* the filters searchInConversation and searchGlobal share.  text is already
\* trimmed and lower-cased (the model's letters have no case); mediaType
\* "none", senderId "-", fromDate 0, toDate 0 stand for "not given"
searchFilter(message, text, mediaType, senderId, fromDate, toDate) ==
  /\ ~message.deleted
  /\ (text # <<>> => Includes(message.body, text))
  /\ (mediaType # "none" => message.mediaType = mediaType)
  /\ (senderId # "-" => message.senderId = senderId)
  /\ (fromDate # 0 => message.createdAt >= fromDate)
  /\ (toDate # 0 => message.createdAt <= toDate)

searchRow(ctx, messageId) ==
  [messageId |-> messageId,
   conversationId |-> ctx.messages[messageId].conversationId,
   body |-> ctx.messages[messageId].body,
   mediaType |-> ctx.messages[messageId].mediaType,
   createdAt |-> ctx.messages[messageId].createdAt]

searchInConversation(ctx, me, conversationId, rawText, mediaType, senderId, fromDate, toDate) ==
  LET mi == MembershipIdx(ctx.members, conversationId, me)
      hits == SelectSeq(ConvMessageIds(ctx, conversationId),
                LAMBDA m : searchFilter(ctx.messages[m], Trim(rawText), mediaType,
                                        senderId, fromDate, toDate))
  IN  IF mi = 0 \/ (mi # 0 /\ ctx.members[mi].isDeleted) THEN NotFound
      ELSE [err |-> "ok", rows |-> [k \in 1..Len(hits) |-> searchRow(ctx, hits[k])]]

\* searchGlobal: the set of rows (their order, by createdAt, is not modelled)
searchGlobal(ctx, me, rawText, mediaType, senderId, fromDate, toDate) ==
  LET conversationIds ==
        {ctx.members[i].conversationId : i \in
           {j \in 1..Len(ctx.members) :
              ctx.members[j].userId = me /\ ~ctx.members[j].isDeleted}}
  IN  {searchRow(ctx, m) : m \in
         {x \in 1..Len(ctx.messages) :
            /\ ctx.messages[x].conversationId \in conversationIds
            /\ searchFilter(ctx.messages[x], Trim(rawText), mediaType,
                            senderId, fromDate, toDate)}}

(* conversations.ts: queries *)

\* activeMembers.find((member) => member.userId !== me): the user, or "-"
otherUserOf(ctx, me, conversationId) ==
  LET activeMembers == SelectSeq(ConvMembers(ctx, conversationId),
                                 LAMBDA member : ~member.isDeleted)
      others == SelectSeq(activeMembers, LAMBDA member : member.userId # me)
  IN  IF Len(others) = 0 THEN "-" ELSE others[1].userId

\* conversations.ts 30-86: the row of one membership, or <<>> for null
conversationRowFor(ctx, me, membership) ==
  LET c == membership.conversationId
      conversation == ctx.conversations[c]
      activeMembers == SelectSeq(ConvMembers(ctx, c), LAMBDA member : ~member.isDeleted)
      otherUser == otherUserOf(ctx, me, c)
      unreadCount == Cardinality({m \in 1..Len(ctx.messages) :
                        /\ ctx.messages[m].conversationId = c
                        /\ ctx.messages[m].senderId # me
                        /\ ctx.messages[m].createdAt > membership.lastReadAt})
  IN  IF membership.isDeleted THEN <<>>
      ELSE IF ~conversation.isGroup /\ otherUser # "-"
              /\ isBlockedBetween(ctx, me, otherUser)
      THEN <<>>
      ELSE <<[id |-> c,
              updatedAt |-> conversation.updatedAt,
              isGroup |-> conversation.isGroup,
              memberCount |-> Len(activeMembers),
              myRole |-> membership.role,
              unreadCount |-> unreadCount,
              title |-> IF conversation.isGroup /\ conversation.name # <<>>
                        THEN conversation.name
                        ELSE IF otherUser # "-" THEN <<otherUser>>
                        ELSE <<"Unknown user">>,
              lastMessageText |-> conversation.lastMessageText,
              lastMessageAt |-> conversation.lastMessageAt]>>

\* sort((a, b) => b.updatedAt - a.updatedAt): stable, newest first
RECURSIVE SortByUpdatedDesc(_)
SortByUpdatedDesc(rows) ==
  IF rows = <<>> THEN <<>>
  ELSE LET k == CHOOSE i \in 1..Len(rows) : \A j \in 1..Len(rows) :
                  \/ rows[i].updatedAt > rows[j].updatedAt
                  \/ (rows[i].updatedAt = rows[j].updatedAt /\ i <= j)
       IN  <<rows[k]>> \o
           SortByUpdatedDesc(SubSeq(rows, 1, k - 1) \o SubSeq(rows, k + 1, Len(rows)))

RECURSIVE Flatten(_)
Flatten(ss) == IF ss = <<>> THEN <<>> ELSE Head(ss) \o Flatten(Tail(ss))

listForCurrentUser(ctx, me) ==
  LET memberships == SelectSeq(ctx.members, LAMBDA r : r.userId = me)
  IN  SortByUpdatedDesc(
        Flatten([k \in 1..Len(memberships) |->
                   conversationRowFor(ctx, me, memberships[k])]))

getConversation(ctx, me, conversationId) ==
  LET mi == MembershipIdx(ctx.members, conversationId, me)
      conversation == ctx.conversations[conversationId]
      activeMembers == SelectSeq(ConvMembers(ctx, conversationId),
                                 LAMBDA member : ~member.isDeleted)
      otherUser == otherUserOf(ctx, me, conversationId)
  IN  IF mi = 0 \/ (mi # 0 /\ ctx.members[mi].isDeleted) THEN NotFound
      ELSE IF ~conversation.isGroup /\ otherUser # "-"
              /\ isBlockedBetween(ctx, me, otherUser)
      THEN NotFound
      ELSE [err |-> "ok",
            id |-> conversationId,
            isGroup |-> conversation.isGroup,
            memberCount |-> Len(activeMembers),
            myRole |-> ctx.members[mi].role,
            title |-> IF conversation.isGroup /\ conversation.name # <<>>
                      THEN conversation.name
                      ELSE IF otherUser # "-" THEN <<otherUser>>
                      ELSE <<"Unknown user">>,
            otherUserId |-> otherUser]

\* conversations.ts listGroupMembers: the rows of the members not hidden
listGroupMembers(ctx, me, conversationId) ==
  LET mi == MembershipIdx(ctx.members, conversationId, me)
      active == SelectSeq(ConvMembers(ctx, conversationId),
                          LAMBDA member : ~member.isDeleted)
  IN  IF mi = 0 \/ (mi # 0 /\ ctx.members[mi].isDeleted) THEN NotFound
      ELSE IF conversationId \notin 1..Len(ctx.conversations) THEN NotFound
      ELSE IF ~ctx.conversations[conversationId].isGroup THEN NotFound
      ELSE [err |-> "ok",
            rows |-> [k \in 1..Len(active) |->
                        [userId |-> active[k].userId, role |-> active[k].role]]]

\* users.ts 439: a typing row counts while it is at most this old
TypingWindow == 2000

\* users.ts listTypingUsers: the other users typing now (dateNow is Date.now()).
\* The result is the set of users (no order is given to the rows)
listTypingUsers(ctx, me, conversationId, dateNow) ==
  LET mi == MembershipIdx(ctx.members, conversationId, me)
      activeThreshold == dateNow - TypingWindow
  IN  IF mi = 0 THEN NotFound
      ELSE [err |-> "ok",
            users |-> {status.userId : status \in
                         {s \in ctx.typingStatus :
                            /\ s.conversationId = conversationId
                            /\ s.userId # me
                            /\ s.updatedAt >= activeThreshold}}]

----------------------------------------------------------------------------
(* The ChatApp component: the upload queue *)

\* the backend's state, which no step of the upload queue's model changes
\* a presence row counts while it is at most this old
ONLINE_WINDOW == 30000

\* presence.ts onlineUsers: the other users with a fresh presence row (dateNow
\* is Date.now()), as a set
onlineUsers(ctx, me, dateNow) ==
  LET onlineThreshold == dateNow - ONLINE_WINDOW
  IN  {row.userId : row \in {r \in ctx.userPresence : r.lastSeenAt >= onlineThreshold}}
        \ {me}

\* users.ts listUsers without a search text: the set of rows (their order, by
\* name, is not modelled)
listUsers(ctx, me, dateNow) ==
  LET onlineThreshold == dateNow - ONLINE_WINDOW
      rowOf(user) ==
        LET privacy == getOrCreatePrivacySettings(ctx, user)
        IN  [id |-> user,
             isOnline |-> /\ privacy.lastSeenVisibility = "everyone"
                          /\ \E presence \in ctx.userPresence :
                               /\ presence.userId = user
                               /\ presence.lastSeenAt >= onlineThreshold,
             canBeMessaged |-> privacy.whoCanMessage = "everyone",
             isBlockedByMe |-> BlockRow(me, user) \in ctx.blocks,
             hasBlockedMe |-> BlockRow(user, me) \in ctx.blocks]
  IN  {row \in {rowOf(user) : user \in Users} :
         /\ row.id # me
         /\ ~row.isBlockedByMe /\ ~row.hasBlockedMe
         /\ row.canBeMessaged}

servervars == <<now, dbvars, ret, editLog, userPresence>>

MAX_IMAGE_BYTES == 10 * 1024 * 1024
MAX_VIDEO_BYTES == 20 * 1024 * 1024
MAX_AUDIO_BYTES == 12 * 1024 * 1024

\* a File: its MIME type, split at the slash, and its size in bytes
File(class, subtype, size) == [type |-> <<class, subtype>>, size |-> size]

\* file.type.startsWith("image/") and the like
StartsWith(type, class) == type[1] = class

\* mutant: a file of exactly the ceiling's size is refused
FileErrorAtCeiling(file) ==
  LET isImage == StartsWith(file.type, "image")
      isVideo == StartsWith(file.type, "video")
      isAudio == StartsWith(file.type, "audio")
  IN  IF ~isImage /\ ~isVideo /\ ~isAudio
      THEN "Only image, video, and audio files are supported."
      ELSE IF isImage /\ file.size >= MAX_IMAGE_BYTES
      THEN "Image is too large. Max size is 10MB."
      ELSE IF isVideo /\ file.size >= MAX_VIDEO_BYTES
      THEN "Video is too large. Max size is 20MB."
      ELSE IF isAudio /\ file.size >= MAX_AUDIO_BYTES
      THEN "Audio is too large. Max size is 12MB."
      ELSE ""

\* the client-side checks of processQueue: the error of the first one that
\* fails, "" when none does
FileError(file) ==
  LET isImage == StartsWith(file.type, "image")
      isVideo == StartsWith(file.type, "video")
      isAudio == StartsWith(file.type, "audio")
  IN  IF ~isImage /\ ~isVideo /\ ~isAudio
      THEN "Only image, video, and audio files are supported."
      ELSE IF isImage /\ file.size > MAX_IMAGE_BYTES
      THEN "Image is too large. Max size is 10MB."
      ELSE IF isVideo /\ file.size > MAX_VIDEO_BYTES
      THEN "Video is too large. Max size is 20MB."
      ELSE IF isAudio /\ file.size > MAX_AUDIO_BYTES
      THEN "Audio is too large. Max size is 12MB."
      ELSE ""

\* mediaType: isImage ? "image" : isVideo ? "video" : "audio"
MediaTypeOf(file) ==
  IF StartsWith(file.type, "image") THEN "image"
  ELSE IF StartsWith(file.type, "video") THEN "video"
  ELSE "audio"

\* an UploadQueueItem as it is enqueued.  error "" and caption <<>> stand
\* for undefined, replyToMessageId 0 for none
QueueItem(id, file, caption, replyToMessageId) ==
  [id |-> id, file |-> file, progress |-> 0, status |-> "queued", error |-> "",
   caption |-> caption, replyToMessageId |-> replyToMessageId]

\* { ...item, field: value, ... }: the item with the patch's fields replaced
Spread(item, patch) ==
  [f \in DOMAIN item |-> IF f \in DOMAIN patch THEN patch[f] ELSE item[f]]

\* prev.map((item) => (item.id === id ? { ...item, ...patch } : item))
MapItem(queue, id, patch) ==
  [k \in 1..Len(queue) |->
     IF queue[k].id = id THEN Spread(queue[k], patch) ELSE queue[k]]

\* the index of the item with this id, 0 when it is not in the queue
ItemIdx(queue, id) ==
  IF \E k \in 1..Len(queue) : queue[k].id = id
  THEN CHOOSE k \in 1..Len(queue) : queue[k].id = id
  ELSE 0

\* setUploadQueue((prev) => [...prev, item]); setDraftMessage("");
\* setReplyToMessage(null); setFailedMessage(null): what handlePickMedia and
\* recorder.onstop share.
\* draft and reply are the values the running function closed over
Enqueue(file, draft, reply) ==
  /\ uploadQueue' = Append(uploadQueue,
                           QueueItem(issued.items + 1, file, Trim(draft), reply))
  /\ issued' = [issued EXCEPT !.items = @ + 1]
  /\ draftMessage' = <<>>
  /\ replyToMessage' = 0
  /\ failedMessage' = NoPayload

\* the file input, rendered with the compose area of an open conversation
handlePickMedia(file) ==
  /\ selectedConversationId # 0
  /\ Enqueue(file, draftMessage, replyToMessage)
  /\ UNCHANGED <<isUploadingMedia, selectedConversationId, recording, upload, uploadLog>>
  /\ UNCHANGED <<servervars, sendError, sendCall, pagevars>>

\* the first click starts the recorder, whose onstop handler is made in this
\* call and closes over this render's draftMessage and replyToMessage; the
\* second click stops it, and onstop enqueues the voice file
handleToggleRecording(size) ==
  /\ selectedConversationId # 0
  /\ IF ~recording.on
     THEN /\ recording' = [on |-> TRUE, draftMessage |-> draftMessage,
                           replyToMessage |-> replyToMessage]
          /\ UNCHANGED <<uploadQueue, issued, draftMessage, replyToMessage,
                         failedMessage>>
     ELSE /\ Enqueue(File("audio", "webm", size),
                     recording.draftMessage, recording.replyToMessage)
          /\ recording' = NoRecording
  /\ UNCHANGED <<isUploadingMedia, selectedConversationId, upload, uploadLog>>
  /\ UNCHANGED <<servervars, sendError, sendCall, pagevars>>

\* the compose box's onChange
typeDraft(text) ==
  /\ selectedConversationId # 0
  /\ draftMessage' = text
  /\ UNCHANGED <<uploadQueue, isUploadingMedia, selectedConversationId, replyToMessage,
                 recording, upload, issued, uploadLog>>
  /\ UNCHANGED <<servervars, textvars, pagevars>>

\* the reply button of a message, and the cancel button of the reply bar (0)
chooseReply(messageId) ==
  /\ selectedConversationId # 0
  /\ replyToMessage' = messageId
  /\ UNCHANGED <<uploadQueue, isUploadingMedia, selectedConversationId, draftMessage,
                 recording, upload, issued, uploadLog>>
  /\ UNCHANGED <<servervars, textvars, pagevars>>

\* selectConversation, and the effect on [selectedConversationId] that drops
\* the pages of the conversation that was open; the live query of the newly
\* opened conversation has no result yet
selectConversation(conversationId) ==
  /\ selectedConversationId' = conversationId
  /\ draftMessage' = <<>>
  /\ replyToMessage' = 0
  /\ sendError' = ""
  /\ failedMessage' = NoPayload
  /\ IF conversationId = selectedConversationId
     THEN UNCHANGED pagevars
     ELSE /\ latestMessagePage' = NoPage
          /\ olderMessages' = <<>>
          /\ requestedOlderCursor' = 0
          /\ oldestLoadedCreatedAt' = 0
          /\ hasMoreHistory' = TRUE
  /\ UNCHANGED <<uploadQueue, isUploadingMedia, recording, upload, issued, uploadLog,
                 sendCall>>
  /\ UNCHANGED servervars

\* mutant: the last queued item is taken
LastQueued(queue) ==
  LET S == {k \in 1..Len(queue) : queue[k].status = "queued"}
  IN  IF S = {} THEN 0 ELSE CHOOSE k \in S : \A j \in S : j <= k

\* uploadQueue.find((item) => item.status === "queued"): its index, 0 for none
FirstQueued(queue) ==
  LET S == {k \in 1..Len(queue) : queue[k].status = "queued"}
  IN  IF S = {} THEN 0 ELSE CHOOSE k \in S : \A j \in S : k <= j

\* a server call the queue makes, as uploadLog records it
LogRow(call, item, conversationId, uploadUrl, storageId) ==
  [call |-> call, itemId |-> item.id, file |-> item.file,
   conversationId |-> conversationId,
   uploadUrl |-> uploadUrl, storageId |-> storageId,
   mediaType |-> MediaTypeOf(item.file),
   caption |-> item.caption, replyToMessageId |-> item.replyToMessageId]

\* the finished or failed attempt's part of the state
EndUpload ==
  /\ isUploadingMedia' = FALSE
  /\ upload' = NoUpload

\* the effect on [isUploadingMedia, uploadQueue, selectedConversationId]
\* and processQueue up to its first await: the client-side checks, then the
\* call of generateUploadUrl
processQueue ==
  LET k == FirstQueued(uploadQueue)
      nextItem == uploadQueue[k]
      error == FileError(nextItem.file)
  IN  /\ ~isUploadingMedia
      /\ Len(uploadQueue) # 0
      /\ selectedConversationId # 0
      /\ k # 0
      /\ IF error # ""
         THEN /\ sendError' = error
              /\ uploadQueue' = MapItem(uploadQueue, nextItem.id,
                   [status |-> "failed", error |-> error, progress |-> 0])
              /\ UNCHANGED <<isUploadingMedia, upload, uploadLog>>
         ELSE /\ isUploadingMedia' = TRUE
              /\ sendError' = ""
              /\ uploadQueue' = MapItem(uploadQueue, nextItem.id,
                   [status |-> "uploading", progress |-> 0])
              /\ upload' = [step |-> "generateUploadUrl", item |-> nextItem,
                            conversationId |-> selectedConversationId,
                            uploadUrl |-> 0, storageId |-> 0]
              /\ uploadLog' = Append(uploadLog,
                   LogRow("generateUploadUrl", nextItem, 0, 0, 0))
      /\ UNCHANGED <<selectedConversationId, draftMessage, replyToMessage, recording,
                     issued>>
      /\ UNCHANGED <<servervars, failedMessage, sendCall, pagevars>>

\* generateUploadUrl resolved with a new URL; the byte transfer starts
generateUploadUrlResolved ==
  /\ upload.step = "generateUploadUrl"
  /\ issued' = [issued EXCEPT !.urls = @ + 1]
  /\ upload' = [upload EXCEPT !.step = "uploadFileWithProgress",
                              !.uploadUrl = issued.urls + 1]
  /\ uploadLog' = Append(uploadLog,
       LogRow("uploadFileWithProgress", upload.item, 0, issued.urls + 1, 0))
  /\ UNCHANGED <<uploadQueue, isUploadingMedia, selectedConversationId, draftMessage,
                 replyToMessage, recording>>
  /\ UNCHANGED <<servervars, textvars, pagevars>>

\* xhr.upload.onprogress
onProgress(progress) ==
  /\ upload.step = "uploadFileWithProgress"
  /\ uploadQueue' = MapItem(uploadQueue, upload.item.id,
                            [progress |-> progress])
  /\ UNCHANGED <<isUploadingMedia, selectedConversationId, draftMessage, replyToMessage,
                 recording, upload, issued, uploadLog>>
  /\ UNCHANGED <<servervars, textvars, pagevars>>

\* the byte transfer resolved with a new storage id; sendMedia is called with
\* what processQueue closed over
uploadFileWithProgressResolved ==
  /\ upload.step = "uploadFileWithProgress"
  /\ issued' = [issued EXCEPT !.storageIds = @ + 1]
  /\ upload' = [upload EXCEPT !.step = "sendMedia", !.storageId = issued.storageIds + 1]
  /\ uploadLog' = Append(uploadLog,
       LogRow("sendMedia", upload.item, upload.conversationId,
              0, issued.storageIds + 1))
  /\ UNCHANGED <<uploadQueue, isUploadingMedia, selectedConversationId, draftMessage,
                 replyToMessage, recording>>
  /\ UNCHANGED <<servervars, textvars, pagevars>>

\* sendMedia resolved
sendMediaResolved ==
  /\ upload.step = "sendMedia"
  /\ uploadQueue' = MapItem(uploadQueue, upload.item.id,
       [status |-> "completed", progress |-> 100, error |-> ""])
  /\ EndUpload
  /\ UNCHANGED <<selectedConversationId, draftMessage, replyToMessage, recording,
                 issued, uploadLog>>
  /\ UNCHANGED <<servervars, textvars, pagevars>>

\* mutant: the catch block without the finally block
processQueueCatchOnly(step) ==
  /\ upload.step = step
  /\ step # "none"
  /\ sendError' = "Failed to upload media."
  /\ uploadQueue' = MapItem(uploadQueue, upload.item.id,
       [status |-> "failed", error |-> "Failed to upload media."])
  /\ upload' = NoUpload
  /\ UNCHANGED <<isUploadingMedia, selectedConversationId, draftMessage, replyToMessage,
                 recording, issued, uploadLog>>
  /\ UNCHANGED <<servervars, failedMessage, sendCall, pagevars>>

\* the catch and finally blocks: the awaited call of this step rejected
processQueueCatch(step) ==
  /\ upload.step = step
  /\ step # "none"
  /\ sendError' = "Failed to upload media."
  /\ uploadQueue' = MapItem(uploadQueue, upload.item.id,
       [status |-> "failed", error |-> "Failed to upload media."])
  /\ EndUpload
  /\ UNCHANGED <<selectedConversationId, draftMessage, replyToMessage, recording,
                 issued, uploadLog>>
  /\ UNCHANGED <<servervars, failedMessage, sendCall, pagevars>>

\* mutant: every failed item is queued again
handleRetryUploadAll(itemId) ==
  LET k == ItemIdx(uploadQueue, itemId)
  IN  /\ selectedConversationId # 0
      /\ k # 0
      /\ uploadQueue[k].status = "failed"
      /\ uploadQueue' = [j \in 1..Len(uploadQueue) |->
                           IF uploadQueue[j].status = "failed"
                           THEN [uploadQueue[j] EXCEPT !.status = "queued",
                                                       !.progress = 0, !.error = ""]
                           ELSE uploadQueue[j]]
      /\ UNCHANGED <<isUploadingMedia, selectedConversationId, draftMessage,
                     replyToMessage, recording, upload, issued, uploadLog>>
      /\ UNCHANGED <<servervars, textvars, pagevars>>

\* the Retry button, which is rendered for a failed item only
handleRetryUpload(itemId) ==
  LET k == ItemIdx(uploadQueue, itemId)
  IN  /\ selectedConversationId # 0
      /\ k # 0
      /\ uploadQueue[k].status = "failed"
      /\ uploadQueue' = MapItem(uploadQueue, itemId,
           [status |-> "queued", progress |-> 0, error |-> ""])
      /\ UNCHANGED <<isUploadingMedia, selectedConversationId, draftMessage,
                     replyToMessage, recording, upload, issued, uploadLog>>
      /\ UNCHANGED <<servervars, textvars, pagevars>>

\* mutant: the Remove button is rendered for every item
handleRemoveUploadItemAlways(itemId) ==
  LET k == ItemIdx(uploadQueue, itemId)
  IN  /\ selectedConversationId # 0
      /\ k # 0
      /\ uploadQueue' = SelectSeq(uploadQueue, LAMBDA item : item.id # itemId)
      /\ UNCHANGED <<isUploadingMedia, selectedConversationId, draftMessage,
                     replyToMessage, recording, upload, issued, uploadLog>>
      /\ UNCHANGED <<servervars, textvars, pagevars>>

\* the Remove button, which is rendered for a failed or completed item only
handleRemoveUploadItem(itemId) ==
  LET k == ItemIdx(uploadQueue, itemId)
  IN  /\ selectedConversationId # 0
      /\ k # 0
      /\ uploadQueue[k].status \in {"failed", "completed"}
      /\ uploadQueue' = SelectSeq(uploadQueue, LAMBDA item : item.id # itemId)
      /\ UNCHANGED <<isUploadingMedia, selectedConversationId, draftMessage,
                     replyToMessage, recording, upload, issued, uploadLog>>
      /\ UNCHANGED <<servervars, textvars, pagevars>>

\* the "Clear done/failed" button, which is rendered while the queue has items
handleClearUploadQueue ==
  /\ selectedConversationId # 0
  /\ Len(uploadQueue) > 0
  /\ uploadQueue' = SelectSeq(uploadQueue,
       LAMBDA item : item.status = "uploading" \/ item.status = "queued")
  /\ UNCHANGED <<isUploadingMedia, selectedConversationId, draftMessage,
                 replyToMessage, recording, upload, issued, uploadLog>>
  /\ UNCHANGED <<servervars, textvars, pagevars>>

----------------------------------------------------------------------------
(* The ChatApp component: sending text *)

\* the payload handleSend builds: the body is the draft as typed
Payload(conversationId, body, replyToMessageId) ==
  [conversationId |-> conversationId, body |-> body,
   replyToMessageId |-> replyToMessageId]

\* the compose form's onSubmit, up to the await of sendMessage
handleSend ==
  /\ selectedConversationId # 0
  /\ sendCall = NoSending
  /\ sendError' = ""
  /\ IF Trim(draftMessage) = <<>> \/ isUploadingMedia
     THEN UNCHANGED sendCall
     ELSE sendCall' = [step |-> "handleSend",
                       payload |-> Payload(selectedConversationId, draftMessage,
                                           replyToMessage)]
  /\ UNCHANGED <<uploadQueue, isUploadingMedia, selectedConversationId, draftMessage,
                 replyToMessage, recording, upload, issued, uploadLog, failedMessage>>
  /\ UNCHANGED <<servervars, pagevars>>

\* the Retry button, rendered while sendError and failedMessage are both set
handleRetrySend ==
  /\ selectedConversationId # 0
  /\ sendCall = NoSending
  /\ sendError # ""
  /\ failedMessage # NoPayload
  /\ sendError' = ""
  /\ sendCall' = [step |-> "handleRetrySend", payload |-> failedMessage]
  /\ UNCHANGED <<uploadQueue, isUploadingMedia, selectedConversationId, draftMessage,
                 replyToMessage, recording, upload, issued, uploadLog, failedMessage>>
  /\ UNCHANGED <<servervars, pagevars>>

\* sendMessage resolved: the rest of the try block of either handler
sendMessageResolved ==
  /\ sendCall # NoSending
  /\ draftMessage' = <<>>
  /\ replyToMessage' = 0
  /\ failedMessage' = NoPayload
  /\ sendCall' = NoSending
  /\ UNCHANGED <<uploadQueue, isUploadingMedia, selectedConversationId, recording,
                 upload, issued, uploadLog, sendError>>
  /\ UNCHANGED <<servervars, pagevars>>

\* sendMessage rejected: the catch block of the handler that made the call
sendMessageRejected ==
  /\ sendCall # NoSending
  /\ IF sendCall.step = "handleSend"
     THEN /\ failedMessage' = sendCall.payload
          /\ sendError' = "Failed to send message."
     ELSE /\ sendError' = "Message retry failed. Check your network and retry."
          /\ UNCHANGED failedMessage
  /\ sendCall' = NoSending
  /\ UNCHANGED <<uploadQueue, isUploadingMedia, selectedConversationId, draftMessage,
                 replyToMessage, recording, upload, issued, uploadLog>>
  /\ UNCHANGED <<servervars, pagevars>>

----------------------------------------------------------------------------
(* The ChatApp component: the pages of messages *)

\* the signed-in user of the tab
Viewer == "A"

\* useQuery(api.messages.list, { conversationId, limit: 40 }) and the same
\* with beforeCreatedAt
CLIENT_PAGE_LIMIT == 40

\* a page as the client holds it.  Of a row the id and createdAt are kept:
\* the merge reads _id, and the boundary is a createdAt
ClientPage(page) ==
  [loaded |-> TRUE,
   items |-> [k \in 1..Len(page.items) |->
                [id |-> page.items[k].id, createdAt |-> page.items[k].createdAt]],
   oldestCreatedAt |-> page.oldestCreatedAt,
   hasMore |-> page.hasMore]

\* merged.filter with the Set seen: the first row of each _id is kept
DedupeById(rows) ==
  LET kept == {i \in 1..Len(rows) :
                 \A j \in 1..(i - 1) : rows[j].id # rows[i].id}
  IN  [k \in 1..Cardinality(kept) |->
         rows[CHOOSE i \in kept : Cardinality({j \in kept : j <= i}) = k]]

\* const messages = useMemo(...): the list that is rendered
MergedMessages == DedupeById(olderMessages \o latestMessagePage.items)

\* the live query delivers a result, and the effect on [latestMessagePage]
\* runs.  The query throws for a conversation the viewer cannot read
latestPageDelivered ==
  LET result == list(Ctx, Viewer, selectedConversationId, 0, Given(CLIENT_PAGE_LIMIT))
      page == ClientPage(result)
  IN  /\ selectedConversationId # 0
      /\ result.err = "ok"
      /\ page # latestMessagePage
      /\ latestMessagePage' = page
      /\ oldestLoadedCreatedAt' =
           IF oldestLoadedCreatedAt = 0 THEN page.oldestCreatedAt
           ELSE IF page.oldestCreatedAt = 0 THEN oldestLoadedCreatedAt
           ELSE Min(oldestLoadedCreatedAt, page.oldestCreatedAt)
      /\ hasMoreHistory' = page.hasMore
      /\ UNCHANGED <<olderMessages, requestedOlderCursor>>
      /\ UNCHANGED <<uploadQueue, isUploadingMedia, selectedConversationId, draftMessage,
                     replyToMessage, recording, upload, issued, uploadLog>>
      /\ UNCHANGED <<servervars, textvars>>

\* the message list is scrolled to its top
onMessageListScroll ==
  /\ selectedConversationId # 0
  /\ hasMoreHistory
  /\ requestedOlderCursor = 0
  /\ oldestLoadedCreatedAt # 0
  /\ requestedOlderCursor' = oldestLoadedCreatedAt
  /\ UNCHANGED <<latestMessagePage, olderMessages, oldestLoadedCreatedAt, hasMoreHistory>>
  /\ UNCHANGED <<uploadQueue, isUploadingMedia, selectedConversationId, draftMessage,
                 replyToMessage, recording, upload, issued, uploadLog>>
  /\ UNCHANGED <<servervars, textvars>>

\* the older page asked for is delivered, and the effect on
\* [olderMessagePage, requestedOlderCursor] runs
olderPageDelivered ==
  LET result == list(Ctx, Viewer, selectedConversationId, requestedOlderCursor,
                     Given(CLIENT_PAGE_LIMIT))
      page == ClientPage(result)
  IN  /\ selectedConversationId # 0
      /\ requestedOlderCursor # 0
      /\ result.err = "ok"
      /\ olderMessages' = DedupeById(olderMessages \o page.items)
      /\ oldestLoadedCreatedAt' = page.oldestCreatedAt
      /\ hasMoreHistory' = page.hasMore
      /\ requestedOlderCursor' = 0
      /\ UNCHANGED latestMessagePage
      /\ UNCHANGED <<uploadQueue, isUploadingMedia, selectedConversationId, draftMessage,
                     replyToMessage, recording, upload, issued, uploadLog>>
      /\ UNCHANGED <<servervars, textvars>>

----------------------------------------------------------------------------
(* Inputs of the calls *)

BodyInputs == {<<"a">>, <<" ", "b">>, <<" ">>}
CaptionInputs == {<<>>, <<"c", " ">>}
MediaTypes == {"image", "video", "audio"}
ConvIdInputs == 1..MaxConversations
MsgIdInputs == 1..MaxMessages
ReplyInputs == 0..MaxMessages

\* the bounds of a specification: the tables and the clock stay within them
Within(maxTime, maxConversations, maxMessages, maxEdits) ==
  /\ now' <= maxTime
  /\ Len(conversations') <= maxConversations
  /\ Len(messages') <= maxMessages
  /\ Len(messageEdits') <= maxEdits

(* Blocking and visibility of direct conversations *)

Actors == {"A", "B"}

InBounds == Within(MaxTime, MaxConversations, MaxMessages, 0)

\* a call made once the previous outcome is delivered, within the bounds
InSpec(call) == Idle /\ call /\ InBounds /\ UNCHANGED clientvars

Next ==
  \/ Return
  \/ Tick /\ InBounds
  \/ \E me \in Actors, other \in Users : InSpec(toggleBlockUser(me, other))
  \/ \E me \in Actors, other \in Users :
       InSpec(getOrCreateDirectConversation(me, other))
  \/ \E me \in Actors, c \in ConvIdInputs : InSpec(deleteConversationForMe(me, c))
  \/ \E me \in Actors, c \in ConvIdInputs, b \in {<<"a", " ">>, <<" ">>}, r \in ReplyInputs :
       InSpec(send(me, c, b, r))
  \/ \E me \in Actors, c \in ConvIdInputs, r \in ReplyInputs :
       InSpec(sendMedia(me, c, "image", <<>>, r))

Spec == Init /\ [][Next]_vars

----------------------------------------------------------------------------
(* Properties of blocking *)

\* c is a direct conversation whose two members are a and b
DirectBetween(ctx, c, a, b) ==
  /\ c \in 1..Len(ctx.conversations)
  /\ ~ctx.conversations[c].isGroup
  /\ a # b
  /\ MembershipIdx(ctx.members, c, a) # 0
  /\ MembershipIdx(ctx.members, c, b) # 0

EdgeExists(a, b) == BlockRow(a, b) \in blocks \/ BlockRow(b, a) \in blocks

\* C1: isBlockedBetween is symmetric and true exactly when a block row exists
\* in at least one direction; and a block row B->A leaves the table only by a
\* toggleBlockUser call of B targeting A, so it stays in effect whatever A does.
C1_BlockSymmetric ==
  /\ [](\A a \in Users, b \in Users :
          /\ isBlockedBetween(Ctx, a, b) = isBlockedBetween(Ctx, b, a)
          /\ isBlockedBetween(Ctx, a, b) = EdgeExists(a, b))
  /\ [][\A a \in Users, b \in Users :
          (BlockRow(b, a) \in blocks /\ BlockRow(b, a) \notin blocks')
            => (ret'.op = "toggleBlockUser" /\ ret'.caller = b /\ ret'.other = a
                /\ isBlockedBetween(Ctx, a, b))]_vars

\* C1 witness: A has just toggled its own edge to B off while B's block of A
\* is still stored, and the pair is still blocked
C1_Witness ==
  /\ ret.op = "toggleBlockUser" /\ ret.caller = "A" /\ ret.other = "B" /\ ret.val = 0
  /\ BlockRow("B", "A") \in blocks
  /\ BlockRow("A", "B") \notin blocks
  /\ isBlockedBetween(Ctx, "A", "B")

\* C2: while a block edge exists between A and B, getOrCreateDirectConversation
\* between them and send / sendMedia by either in their direct conversation
\* fail, and the failed call leaves every table unchanged.
C2_BlockedCallsFail ==
  [][\A me \in Users, other \in Users :
       EdgeExists(me, other) =>
         /\ getOrCreateDirectConversation(me, other)
              => (ret'.err # "ok" /\ UNCHANGED dbvars)
         /\ \A c \in ConvIds :
              DirectBetween(Ctx, c, me, other) =>
                /\ \A b \in BodyInputs, r \in ReplyInputs :
                     send(me, c, b, r) => (ret'.err # "ok" /\ UNCHANGED dbvars)
                /\ \A t \in MediaTypes, b \in CaptionInputs, r \in ReplyInputs :
                     sendMedia(me, c, t, b, r)
                       => (ret'.err # "ok" /\ UNCHANGED dbvars)]_vars

\* C2 witness: a send was refused because of a block, in a direct conversation
\* in which the caller's membership is not hidden
C2_Witness ==
  /\ ret.op = "send" /\ ret.err = "Cannot send message"
  /\ \E other \in Users :
       /\ DirectBetween(Ctx, ret.id, ret.caller, other)
       /\ EdgeExists(ret.caller, other)

InList(rows, c) == \E k \in 1..Len(rows) : rows[k].id = c

\* C3: while a block edge exists between the two members of a direct
\* conversation, messages.list and getConversation fail with Not found and
\* listForCurrentUser omits the conversation, for both members, whatever the
\* isDeleted flags of the two memberships are.
C3_BlockedInvisible ==
  \A c \in ConvIds, a \in Users, b \in Users :
    (DirectBetween(Ctx, c, a, b) /\ EdgeExists(a, b)) =>
      /\ list(Ctx, a, c, 0, NotGiven).err = "Not found"
      /\ getConversation(Ctx, a, c).err = "Not found"
      /\ ~InList(listForCurrentUser(Ctx, a), c)

\* C4: while a block edge exists between the two members of a direct
\* conversation, searchInConversation, searchGlobal, listStarred and
\* getEditHistory yield no message of that conversation to either member.
C4_BlockedNoOtherRead ==
  \A c \in ConvIds, a \in Users, b \in Users :
    (DirectBetween(Ctx, c, a, b) /\ EdgeExists(a, b)) =>
      /\ LET r == searchInConversation(Ctx, a, c, <<>>, "none", "-", 0, 0)
         IN  r.err = "ok" => r.rows = <<>>
      /\ \A row \in searchGlobal(Ctx, a, <<>>, "none", "-", 0, 0) :
           row.conversationId # c
      /\ \A row \in listStarred(Ctx, a, 0) : row.conversationId # c
      /\ \A m \in MsgIds :
           messages[m].conversationId = c =>
             LET h == getEditHistory(Ctx, a, m)
             IN  h.err = "ok" => h.edits = <<>>

\* the tables as they would be had no block between a and b been stored
WithoutBlock(ctx, a, b) ==
  [ctx EXCEPT !.blocks = @ \ {BlockRow(a, b), BlockRow(b, a)}]

\* C5: toggleBlockUser alters no conversation, membership, message, edit, star
\* or typing row; and once the block is removed and no edge is left between
\* the pair, messages.list and listForCurrentUser return to both users what
\* the tables give with the block never stored, the direct conversation being
\* listed again for each member who has not hidden it.
C5_BlockReversible ==
  [][\A me \in Users, other \in Users :
       toggleBlockUser(me, other) =>
         /\ UNCHANGED <<messageReactions, privacySettings, conversations, members, messages,
                        messageEdits, messageStars, typingStatus, userPresence>>
         /\ ~isBlockedBetween(Ctx', me, other) =>
              \A u \in {me, other} :
                /\ listForCurrentUser(Ctx', u)
                     = listForCurrentUser(WithoutBlock(Ctx, me, other), u)
                /\ \A c \in ConvIds :
                     /\ list(Ctx', u, c, 0, NotGiven)
                          = list(WithoutBlock(Ctx, me, other), u, c, 0, NotGiven)
                     /\ (/\ DirectBetween(Ctx, c, me, other)
                         /\ ~members[MembershipIdx(members, c, u)].isDeleted)
                          => /\ list(Ctx', u, c, 0, NotGiven).err = "ok"
                             /\ InList(listForCurrentUser(Ctx', u), c)]_vars

\* C5 witness: A has just removed its block of B, no edge is left, and their
\* direct conversation, which holds a message, is listed again for both
C5_Witness ==
  /\ ret.op = "toggleBlockUser" /\ ret.caller = "A" /\ ret.other = "B" /\ ret.val = 0
  /\ ~EdgeExists("A", "B")
  /\ \E c \in ConvIds :
       /\ DirectBetween(Ctx, c, "A", "B")
       /\ \E m \in MsgIds : messages[m].conversationId = c
       /\ InList(listForCurrentUser(Ctx, "A"), c)
       /\ InList(listForCurrentUser(Ctx, "B"), c)
       /\ Len(list(Ctx, "B", c, 0, NotGiven).items) > 0

----------------------------------------------------------------------------
(* Direct conversations: two memberships, one conversation per pair *)

DirectMaxConversations == 2
DirectMaxMessages == 1

GroupNameInputs == {<<"g">>, <<" ">>}
MemberIdInputs == {<<"B", "C", "B">>, <<"C", "A", "C">>}
RoleInputs == {"admin", "member"}
WhoCanMessageInputs == {"everyone", "nobody"}

DirectInBounds == Within(1, DirectMaxConversations, DirectMaxMessages, 0)

InDirect(call) == Idle /\ call /\ DirectInBounds /\ UNCHANGED clientvars

NextDirect ==
  \/ Return
  \/ \E me \in Actors, other \in Users :
       InDirect(getOrCreateDirectConversation(me, other))
  \/ \E me \in Actors, c \in 1..DirectMaxConversations :
       InDirect(deleteConversationForMe(me, c))
  \/ \E c \in 1..DirectMaxConversations : InDirect(send("A", c, <<"a">>, 0))
  \/ \E other \in Actors : InDirect(toggleBlockUser("A", other))
  \/ \E w \in WhoCanMessageInputs :
       InDirect(updateMyPrivacySettings("C", NotGiven, NotGiven, Given(w)))
  \/ \E n \in GroupNameInputs, ids \in MemberIdInputs :
       InDirect(createGroupConversation("A", n, ids))
  \/ \E me \in Actors, c \in 1..DirectMaxConversations :
       InDirect(addGroupMembers(me, c, <<"C", "A", "C">>))
  \/ \E me \in Actors, c \in 1..DirectMaxConversations, t \in {"B", "C"} :
       InDirect(removeGroupMember(me, c, t))
  \/ \E me \in Actors, c \in 1..DirectMaxConversations, r \in RoleInputs :
       InDirect(updateGroupMemberRole(me, c, "B", r))

SpecDirect == Init /\ [][NextDirect]_vars

DirectConvsOf(a, b) == {c \in ConvIds : DirectBetween(Ctx, c, a, b)}

\* C6: every non-group conversation has exactly two membership rows, of two
\* distinct users, and a pair of users has at most one non-group conversation;
\* a getOrCreateDirectConversation call that succeeds for a pair that has one
\* (from either side, hidden or not) inserts nothing and returns its id.
C6_DirectPairUnique ==
  /\ [](/\ \A c \in ConvIds :
             ~conversations[c].isGroup =>
               /\ Cardinality(MemberIdxOf(members, c)) = 2
               /\ Cardinality({members[i].userId : i \in MemberIdxOf(members, c)}) = 2
        /\ \A a \in Users, b \in Users : Cardinality(DirectConvsOf(a, b)) <= 1)
  /\ [][\A me \in Users, other \in Users :
          (/\ ret'.op = "getOrCreateDirectConversation"
           /\ ret'.err = "ok"
           /\ DirectConvsOf(me, other) # {}
           /\ getOrCreateDirectConversation(me, other))
            => /\ ret'.val \in DirectConvsOf(me, other)
               /\ conversations' = conversations
               /\ Len(members') = Len(members)]_vars

\* C6 witness: a call for a pair returned their existing conversation (it
\* holds a message sent before the call) while the other member's membership
\* of it is hidden, and a group conversation exists as well
C6_Witness ==
  /\ ret.op = "getOrCreateDirectConversation" /\ ret.err = "ok"
  /\ DirectBetween(Ctx, ret.val, ret.caller, ret.other)
  /\ \E m \in MsgIds : messages[m].conversationId = ret.val
  /\ members[MembershipIdx(members, ret.val, ret.other)].isDeleted
  /\ ~members[MembershipIdx(members, ret.val, ret.caller)].isDeleted
  /\ \E c \in ConvIds : conversations[c].isGroup

----------------------------------------------------------------------------
(* Delivery and read status *)

StatusMaxTime == 3
StatusMaxMessages == 2

StatusInBounds == Within(StatusMaxTime, 1, StatusMaxMessages, 0)

InStatus(call) == Idle /\ call /\ StatusInBounds /\ UNCHANGED clientvars

NextStatus ==
  \/ Return
  \/ Tick /\ StatusInBounds
  \/ InStatus(getOrCreateDirectConversation("A", "B"))
  \/ InStatus(createGroupConversation("A", <<"g">>, <<"B", "C">>))
  \/ \E me \in Actors : InStatus(send(me, 1, <<"a">>, 0))
  \/ \E me \in Users : InStatus(markAsRead(me, 1))
  \/ \E me \in {"B", "C"} : InStatus(deleteConversationForMe(me, 1))
  \/ InStatus(removeGroupMember("A", 1, "C"))
  \/ \E me \in {"B", "C"}, on \in BOOLEAN :
       InStatus(updateMyPrivacySettings(me, Given(on), NotGiven, NotGiven))

SpecStatus == Init /\ [][NextStatus]_vars

\* the other members of the message's conversation whose membership is not hidden
ActiveOthers(c, sender) ==
  {i \in MemberIdxOf(members, c) : members[i].userId # sender /\ ~members[i].isDeleted}

HasRead(i, message) ==
  /\ getOrCreatePrivacySettings(Ctx, members[i].userId).readReceiptsEnabled
  /\ members[i].lastReadAt >= message.createdAt

\* C7: for a message authored by the viewer, messages.list returns "read" iff
\* some other member with a non-hidden membership has read receipts enabled
\* and lastReadAt >= createdAt; otherwise "delivered" iff some other member
\* with a non-hidden membership exists; otherwise "sent".
C7_StatusComputation ==
  \A c \in ConvIds, viewer \in Users :
    LET r == list(Ctx, viewer, c, 0, NotGiven)
    IN  r.err = "ok" =>
          \A k \in 1..Len(r.items) :
            LET item == r.items[k]
                message == messages[item.id]
                others == ActiveOthers(c, viewer)
                read == \E i \in others : HasRead(i, message)
            IN  item.isOwn =>
                  /\ (item.status = "read") = read
                  /\ (item.status = "delivered") = (~read /\ others # {})
                  /\ (item.status = "sent") = (~read /\ others = {})

\* C7 witness: one page holds an own message with status "read" and a later
\* own message with status "delivered"
C7_Witness ==
  \E c \in ConvIds, viewer \in Users :
    LET r == list(Ctx, viewer, c, 0, NotGiven)
    IN  /\ r.err = "ok"
        /\ \E k \in 1..Len(r.items) : r.items[k].isOwn /\ r.items[k].status = "read"
        /\ \E k \in 1..Len(r.items) : r.items[k].isOwn /\ r.items[k].status = "delivered"

\* the tables with user u's lastReadAt in conversation c set to t
WithLastReadAt(ctx, c, u, t) ==
  [ctx EXCEPT !.members = [i \in 1..Len(ctx.members) |->
     IF ctx.members[i].conversationId = c /\ ctx.members[i].userId = u
     THEN [ctx.members[i] EXCEPT !.lastReadAt = t]
     ELSE ctx.members[i]]]

\* C8: a member with read receipts disabled is in no message's seenBy, and
\* messages.list gives every other user the same result whatever that
\* member's lastReadAt is.
C8_ReceiptsDisabledHidden ==
  \A c \in ConvIds, u \in Users :
    (/\ MembershipIdx(members, c, u) # 0
     /\ ~getOrCreatePrivacySettings(Ctx, u).readReceiptsEnabled) =>
      \A viewer \in Users \ {u} :
        LET r == list(Ctx, viewer, c, 0, NotGiven)
        IN  /\ \A t \in 0..StatusMaxTime :
                 list(WithLastReadAt(Ctx, c, u, t), viewer, c, 0, NotGiven) = r
            /\ r.err = "ok" =>
                 \A k \in 1..Len(r.items) : u \notin SeqToSet(r.items[k].seenBy)

\* C8 witness: B has read receipts disabled and has read A's message, and A
\* is shown "delivered" with nobody in seenBy
C8_Witness ==
  /\ ~getOrCreatePrivacySettings(Ctx, "B").readReceiptsEnabled
  /\ \E c \in ConvIds :
       LET r == list(Ctx, "A", c, 0, NotGiven)
           bi == MembershipIdx(members, c, "B")
       IN  /\ r.err = "ok"
           /\ bi # 0
           /\ ~members[bi].isDeleted
           /\ \E k \in 1..Len(r.items) :
                /\ r.items[k].isOwn
                /\ members[bi].lastReadAt >= r.items[k].createdAt
                /\ r.items[k].status = "delivered"
                /\ r.items[k].seenBy = <<>>

\* C9: for every message the viewer did not author, messages.list returns
\* status null and an empty seenBy.
C9_StatusOnlyForSender ==
  \A c \in ConvIds, viewer \in Users :
    LET r == list(Ctx, viewer, c, 0, NotGiven)
    IN  r.err = "ok" =>
          \A k \in 1..Len(r.items) :
            ~r.items[k].isOwn =>
              (r.items[k].status = "null" /\ r.items[k].seenBy = <<>>)

----------------------------------------------------------------------------
(* Edit history *)

EditMaxTime == 2
EditMaxMessages == 2
EditMaxEdits == 3

EditInBounds == Within(EditMaxTime, 1, EditMaxMessages, EditMaxEdits)

InEdit(call) == Idle /\ call /\ EditInBounds /\ UNCHANGED clientvars

NextEdit ==
  \/ Return
  \/ Tick /\ EditInBounds
  \/ InEdit(getOrCreateDirectConversation("A", "B"))
  \/ \E me \in Actors, b \in {<<"a">>, <<"b">>} : InEdit(send(me, 1, b, 0))
  \/ \E me \in Actors, m \in 1..EditMaxMessages, b \in BodyInputs :
       InEdit(editOwnMessage(me, m, b))
  \/ \E me \in Actors, m \in 1..EditMaxMessages : InEdit(deleteOwnMessage(me, m))

SpecEdit == Init /\ [][NextEdit]_vars

\* C10: after N successful edits of a message with original body b0 and new
\* trimmed bodies b1..bN (editLog holds b0..bN), the message has exactly N
\* messageEdits rows, the i-th of them has previousBody = b(i-1), the body of
\* the message is bN as long as it is not deleted, and messages.list reports
\* editCount = N; also when an edit repeats the current body.
C10_EditHistory ==
  \A m \in MsgIds :
    LET rows == MessageEditsOf(Ctx, m)
        N == Len(editLog[m]) - 1
    IN  /\ Len(rows) = N
        /\ \A i \in 1..N : rows[i].previousBody = editLog[m][i]
        /\ ~messages[m].deleted => messages[m].body = editLog[m][N + 1]
        /\ \A viewer \in Users :
             LET r == list(Ctx, viewer, messages[m].conversationId, 0, NotGiven)
             IN  r.err = "ok" =>
                   \A k \in 1..Len(r.items) :
                     r.items[k].id = m => r.items[k].editCount = N

\* C10 witness: a message edited three times, one edit repeating the body it
\* had, and listed with editCount 3
C10_Witness ==
  \E m \in MsgIds :
    /\ Len(editLog[m]) = 4
    /\ \E i \in 1..3 : editLog[m][i] = editLog[m][i + 1]
    /\ \E i \in 1..3 : editLog[m][i] # editLog[m][i + 1]
    /\ ~messages[m].deleted
    /\ LET r == list(Ctx, messages[m].senderId, messages[m].conversationId, 0, NotGiven)
       IN  r.err = "ok" /\ \E k \in 1..Len(r.items) :
             r.items[k].id = m /\ r.items[k].editCount = 3
\* C11: editOwnMessage and deleteOwnMessage succeed only for the message's
\* sender and a call by another user fails with Forbidden; editOwnMessage also
\* fails when the message is deleted or the new body trims to empty; every
\* failed call leaves the messages and the messageEdits rows unchanged.
C11_SenderOnly ==
  [][\A me \in Users, m \in MsgIds :
       /\ deleteOwnMessage(me, m) =>
            /\ (ret'.err = "ok") = (messages[m].senderId = me)
            /\ messages[m].senderId # me => ret'.err = "Forbidden"
            /\ ret'.err # "ok" =>
                 (messages' = messages /\ messageEdits' = messageEdits)
       /\ \A b \in BodyInputs :
            editOwnMessage(me, m, b) =>
              /\ (ret'.err = "ok") = (/\ messages[m].senderId = me
                                      /\ ~messages[m].deleted
                                      /\ Trim(b) # <<>>)
              /\ messages[m].senderId # me => ret'.err = "Forbidden"
              /\ ret'.err # "ok" =>
                   (messages' = messages /\ messageEdits' = messageEdits)]_vars

\* C11 witness: an edit by a user who is not the sender was refused with
\* Forbidden, on a message its sender had edited before
C11_Witness ==
  /\ ret.op = "editOwnMessage" /\ ret.err = "Forbidden"
  /\ ret.id \in MsgIds
  /\ messages[ret.id].senderId # ret.caller
  /\ ~messages[ret.id].deleted
  /\ Len(MessageEditsOf(Ctx, ret.id)) > 0

----------------------------------------------------------------------------
(* Soft deletion and replies *)

ReplyMaxTime == 2
ReplyMaxMessages == 3
ReplyMaxEdits == 1

ReplyInBounds == Within(ReplyMaxTime, 1, ReplyMaxMessages, ReplyMaxEdits)

InReply(call) == Idle /\ call /\ ReplyInBounds /\ UNCHANGED clientvars

NextReply ==
  \/ Return
  \/ Tick /\ ReplyInBounds
  \/ InReply(getOrCreateDirectConversation("A", "B"))
  \/ \E me \in Actors, r \in 0..ReplyMaxMessages : InReply(send(me, 1, <<"a">>, r))
  \/ \E me \in Actors, m \in 1..ReplyMaxMessages : InReply(editOwnMessage(me, m, <<"b">>))
  \/ \E me \in Actors, m \in 1..ReplyMaxMessages : InReply(deleteOwnMessage(me, m))

SpecReply == Init /\ [][NextReply]_vars

\* C12: message rows are never removed and deletion is soft and permanent:
\* the table of messages only grows and a row keeps its identity, a deleted
\* message has an empty body and stays deleted in every step, and a reply to
\* a deleted message still resolves to its row: messages.list renders the
\* deleted-message placeholder as its replyTo.
C12_SoftDeletePermanent ==
  /\ [](\A m \in MsgIds : messages[m].deleted => messages[m].body = <<>>)
  /\ [](\A m \in MsgIds :
          LET r == messages[m].replyToMessageId
          IN  r # 0 =>
                /\ r \in MsgIds
                /\ \A viewer \in Users :
                     LET page == list(Ctx, viewer, messages[m].conversationId, 0, NotGiven)
                     IN  page.err = "ok" =>
                           \E k \in 1..Len(page.items) :
                             /\ page.items[k].id = m
                             /\ Len(page.items[k].replyTo) = 1
                             /\ page.items[k].replyTo[1].messageId = r
                             /\ page.items[k].replyTo[1].body =
                                  IF messages[r].deleted THEN DeletedPlaceholder
                                  ELSE messages[r].body)
  /\ [][/\ Len(messages') >= Len(messages)
        /\ \A m \in MsgIds :
             /\ messages'[m].conversationId = messages[m].conversationId
             /\ messages'[m].senderId = messages[m].senderId
             /\ messages'[m].createdAt = messages[m].createdAt
             /\ messages[m].deleted => messages'[m].deleted]_vars

\* C12 witness: a reply whose target was deleted afterwards has itself been
\* edited since, and is listed with the deleted-message placeholder
C12_Witness ==
  \E m \in MsgIds :
    LET r == messages[m].replyToMessageId
        page == list(Ctx, messages[m].senderId, messages[m].conversationId, 0, NotGiven)
    IN  /\ r \in MsgIds
        /\ messages[r].deleted
        /\ Len(MessageEditsOf(Ctx, m)) > 0
        /\ page.err = "ok"
        /\ \E k \in 1..Len(page.items) :
             /\ page.items[k].id = m
             /\ page.items[k].replyTo[1].body = DeletedPlaceholder

----------------------------------------------------------------------------
(* Reactions *)

ReactMaxMessages == 2
ReactMaxReactions == 3

EmojiInputs == {"thumbs up", "fire", "pile of poo"}

ReactInBounds ==
  /\ Within(1, 1, ReactMaxMessages, 0)
  /\ Len(messageReactions') <= ReactMaxReactions

InReact(call) == Idle /\ call /\ ReactInBounds /\ UNCHANGED clientvars

NextReact ==
  \/ Return
  \/ InReact(getOrCreateDirectConversation("A", "B"))
  \/ InReact(send("A", 1, <<"a">>, 0))
  \/ InReact(deleteConversationForMe("B", 1))
  \/ \E me \in Users, m \in 1..ReactMaxMessages, emoji \in EmojiInputs :
       InReact(toggleReaction(me, m, emoji))

SpecReact == Init /\ [][NextReact]_vars

\* the rows of the table other than the given one, in order
OtherReactions(rows, row) == SelectSeq(rows, LAMBDA r : r # row)

\* C13: there is at most one messageReactions row per (message, user, emoji)
\* and every stored emoji is on the allow-list; a toggleReaction with an emoji
\* outside the list is rejected without a write; a successful one removes
\* exactly the caller's row when it exists and otherwise inserts it, so that a
\* second identical call restores the prior rows.
C13_ReactionToggle ==
  /\ [](/\ \A i, j \in 1..Len(messageReactions) :
             messageReactions[i] = messageReactions[j] => i = j
        /\ \A i \in 1..Len(messageReactions) :
             messageReactions[i].emoji \in ALLOWED_REACTIONS)
  /\ [][\A me \in Users, m \in 1..ReactMaxMessages, emoji \in EmojiInputs :
          toggleReaction(me, m, emoji) =>
            LET row == ReactionRow(m, me, emoji)
            IN  /\ emoji \notin ALLOWED_REACTIONS =>
                     (ret'.err = "Invalid reaction" /\ UNCHANGED dbvars)
                /\ ret'.err # "ok" => UNCHANGED dbvars
                /\ (ret'.err = "ok" /\ row \in SeqToSet(messageReactions)) =>
                     /\ messageReactions' = OtherReactions(messageReactions, row)
                     /\ Len(messageReactions') = Len(messageReactions) - 1
                /\ (ret'.err = "ok" /\ row \notin SeqToSet(messageReactions)) =>
                     /\ Len(messageReactions') = Len(messageReactions) + 1
                     /\ row \in SeqToSet(messageReactions')
                     /\ OtherReactions(messageReactions', row) = messageReactions]_vars

\* C13 witness: a second identical toggleReaction has just removed the
\* caller's row, while another user's reaction with the same emoji on the same
\* message is still stored
C13_Witness ==
  /\ ret.op = "toggleReaction" /\ ret.err = "ok" /\ ret.val = 0
  /\ ReactionRow(ret.id, ret.caller, ret.other) \notin SeqToSet(messageReactions)
  /\ \E u \in Users \ {ret.caller} :
       ReactionRow(ret.id, u, ret.other) \in SeqToSet(messageReactions)

----------------------------------------------------------------------------
(* Pagination of messages.list *)

PageMaxTime == 2
PageMaxMessages == 3

LimitInputs == {NotGiven, Given(1), Given(2)}

PageInBounds == Within(PageMaxTime, 1, PageMaxMessages, 0)

InPage(call) == Idle /\ call /\ PageInBounds /\ UNCHANGED clientvars

NextPage ==
  \/ Return
  \/ Tick /\ PageInBounds
  \/ InPage(getOrCreateDirectConversation("A", "B"))
  \/ \E me \in Actors : InPage(send(me, 1, <<"a">>, 0))
  \/ \E me \in Actors, m \in 1..PageMaxMessages : InPage(deleteOwnMessage(me, m))

SpecPage == Init /\ [][NextPage]_vars

\* the ids of the items of a page
PageIds(page) == [k \in 1..Len(page.items) |-> page.items[k].id]

\* the page fetched with cursor before (0: none), preceded by the older pages
\* fetched with beforeCreatedAt = oldestCreatedAt while hasMore holds
RECURSIVE OlderPages(_, _, _, _, _, _)
OlderPages(ctx, me, conversationId, before, limit, fuel) ==
  LET page == list(ctx, me, conversationId, before, limit)
  IN  IF page.err # "ok" THEN <<>>
      ELSE IF page.hasMore /\ fuel > 0
      THEN OlderPages(ctx, me, conversationId, page.oldestCreatedAt, limit, fuel - 1)
             \o PageIds(page)
      ELSE PageIds(page)

\* C14: for any conversation contents and any limit, the pages fetched from
\* the newest back until hasMore is false, concatenated oldest page first,
\* hold every non-deleted message of the conversation exactly once, in
\* ascending createdAt order, without duplicates.
C14_PaginationComplete ==
  \A c \in ConvIds, viewer \in Users, limit \in LimitInputs :
    list(Ctx, viewer, c, 0, limit).err = "ok" =>
      LET all == OlderPages(Ctx, viewer, c, 0, limit, Len(messages))
      IN  /\ \A i, j \in 1..Len(all) : all[i] = all[j] => i = j
          /\ \A i, j \in 1..Len(all) :
               i < j => messages[all[i]].createdAt <= messages[all[j]].createdAt
          /\ \A m \in MsgIds :
               (messages[m].conversationId = c /\ ~messages[m].deleted)
                 => m \in SeqToSet(all)

----------------------------------------------------------------------------
(* Group membership and roles *)

\* C15: there is at most one conversationMembers row per (conversation, user);
\* a successful addGroupMembers inserts a row only for a user who has none in
\* the conversation, and leaves every other listed user with the row it had,
\* not hidden.
C15_OneMembershipRow ==
  /\ [](\A i, j \in 1..Len(members) :
          (/\ members[i].conversationId = members[j].conversationId
           /\ members[i].userId = members[j].userId) => i = j)
  /\ [][\A me \in Users, c \in ConvIds, ids \in MemberIdInputs :
          (/\ ret'.op = "addGroupMembers"
           /\ ret'.err = "ok"
           /\ addGroupMembers(me, c, ids))
            => LET listed == SeqToSet(ids) \ {me}
                   fresh == {u \in listed : MembershipIdx(members, c, u) = 0}
               IN  /\ Len(members') = Len(members) + Cardinality(fresh)
                   /\ \A u \in listed :
                        LET before == MembershipIdx(members, c, u)
                            after == MembershipIdx(members', c, u)
                        IN  /\ after # 0
                            /\ ~members'[after].isDeleted
                            /\ before # 0 => after = before]_vars

\* C15 witness: addGroupMembers has just succeeded in a group in which C,
\* removed before (a removal stamps lastReadAt), holds a single row again
\* not hidden
C15_Witness ==
  /\ ret.op = "addGroupMembers" /\ ret.err = "ok"
  /\ LET ci == MembershipIdx(members, ret.id, "C")
     IN  /\ ci # 0
         /\ ~members[ci].isDeleted
         /\ members[ci].lastReadAt # 0
         /\ Cardinality({i \in MemberIdxOf(members, ret.id) : members[i].userId = "C"}) = 1


GroupMaxTime == 2
GroupMaxMessages == 1

GroupInBounds == Within(GroupMaxTime, 1, GroupMaxMessages, 0)

InGroup(call) == Idle /\ call /\ GroupInBounds /\ UNCHANGED clientvars

NextGroup ==
  \/ Return
  \/ Tick /\ GroupInBounds
  \/ InGroup(createGroupConversation("A", <<"g">>, <<"B", "C">>))
  \/ \E me \in Users, t \in Users, r \in RoleInputs :
       InGroup(updateGroupMemberRole(me, 1, t, r))
  \/ \E me \in Users, t \in Users : InGroup(removeGroupMember(me, 1, t))
  \/ \E me \in Users, ids \in {<<"B", "C">>, <<"A">>} : InGroup(addGroupMembers(me, 1, ids))
  \/ \E me \in Users : InGroup(deleteConversationForMe(me, 1))
  \/ \E me \in Users : InGroup(send(me, 1, <<"a">>, 0))

SpecGroup == Init /\ [][NextGroup]_vars

\* owner > admin > member
Rank(role) == IF role = "owner" THEN 3 ELSE IF role = "admin" THEN 2 ELSE 1

\* C16: removeGroupMember succeeds only when the caller's role strictly
\* outranks the target's (owner > admin > member); in every other case, a
\* target of equal role and the caller themself included, it fails and the
\* target's membership row is unchanged.
C16_RemoveNeedsHigherRank ==
  [][\A me \in Users, c \in ConvIds, t \in Users :
       removeGroupMember(me, c, t) =>
         LET mi == MembershipIdx(members, c, me)
             ti == MembershipIdx(members, c, t)
             outranks == /\ mi # 0 /\ ti # 0
                         /\ Rank(members[mi].role) > Rank(members[ti].role)
         IN  /\ ret'.err = "ok" => outranks
             /\ ~outranks => (ret'.err # "ok" /\ members' = members)]_vars

\* the rows of conversation c that carry role owner
OwnerRows(mem, c) == {i \in MemberIdxOf(mem, c) : mem[i].role = "owner"}

\* C17: every group conversation has exactly one membership row with role
\* owner, its creator's (the first row of the group), and no step changes
\* which row that is; updateGroupMemberRole succeeds only for a caller who is
\* the owner with a membership that is not hidden, on a target who is not the
\* owner, and assigns admin or member.
C17_SingleOwner ==
  /\ [](\A c \in ConvIds :
          conversations[c].isGroup =>
            /\ Cardinality(OwnerRows(members, c)) = 1
            /\ \A i \in MemberIdxOf(members, c) :
                 \A o \in OwnerRows(members, c) : o <= i)
  /\ [][\A c \in ConvIds : OwnerRows(members', c) = OwnerRows(members, c)]_vars
  /\ [][\A me \in Users, c \in ConvIds, t \in Users, r \in RoleInputs :
          (updateGroupMemberRole(me, c, t, r) /\ ret'.err = "ok") =>
            LET mi == MembershipIdx(members, c, me)
                ti == MembershipIdx(members, c, t)
            IN  /\ mi # 0 /\ members[mi].role = "owner" /\ ~members[mi].isDeleted
                /\ ti # 0 /\ members[ti].role # "owner"
                /\ members'[ti].role = r
                /\ r # "owner"]_vars

\* C17 witness: the owner was refused a change of its own role, in a group
\* in which another member has been made admin
C17_Witness ==
  /\ ret.op = "updateGroupMemberRole"
  /\ ret.err = "Cannot change owner role"
  /\ ret.caller = ret.other
  /\ \E i \in MemberIdxOf(members, ret.id) : members[i].role = "admin"

\* C18: once owner A has created group G with B and C, promoted B to admin,
\* and B has removed C, a removeGroupMember call by C on B fails with
\* Forbidden and leaves B's membership unchanged.
C18_RemovedMemberForbidden ==
  [][\A c \in ConvIds :
       LET ai == MembershipIdx(members, c, "A")
           bi == MembershipIdx(members, c, "B")
           ci == MembershipIdx(members, c, "C")
       IN  (/\ conversations[c].isGroup
            /\ ai # 0 /\ bi # 0 /\ ci # 0
            /\ members[ai].role = "owner"
            /\ members[bi].role = "admin" /\ ~members[bi].isDeleted
            /\ members[ci].role = "member" /\ members[ci].isDeleted
            /\ removeGroupMember("C", c, "B"))
             => (ret'.err = "Forbidden" /\ members'[bi] = members[bi])]_vars

----------------------------------------------------------------------------
(* Failed sends *)

SendMaxConversations == 2
SendMaxMessages == 2

SendInBounds == Within(1, SendMaxConversations, SendMaxMessages, 0)

InSend(call) == Idle /\ call /\ SendInBounds /\ UNCHANGED clientvars

NextSend ==
  \/ Return
  \/ \E other \in {"B", "C"} : InSend(getOrCreateDirectConversation("A", other))
  \/ \E me \in Actors, c \in 1..SendMaxConversations, b \in {<<"a">>, <<" ">>},
        r \in 0..SendMaxMessages : InSend(send(me, c, b, r))
  \/ \E me \in Actors, c \in 1..SendMaxConversations, r \in 0..SendMaxMessages :
       InSend(sendMedia(me, c, "image", <<>>, r))
  \/ InSend(toggleBlockUser("B", "A"))
  \/ \E w \in WhoCanMessageInputs :
       InSend(updateMyPrivacySettings("B", NotGiven, NotGiven, Given(w)))
  \/ \E c \in 1..SendMaxConversations : InSend(deleteConversationForMe("A", c))
  \/ \E c \in 1..SendMaxConversations : InSend(updateTyping("A", c, TRUE))

SpecSend == Init /\ [][NextSend]_vars

\* a precondition shared by send and sendMedia does not hold for the caller:
\* no membership or a hidden one, no conversation, or, in a direct
\* conversation, a block with the other member or the other member accepting
\* messages from nobody
SendRefused(me, c) ==
  LET mi == MembershipIdx(members, c, me)
      others == {members[i].userId : i \in MemberIdxOf(members, c)} \ {me}
  IN  \/ mi = 0
      \/ mi # 0 /\ members[mi].isDeleted
      \/ c \notin ConvIds
      \/ /\ c \in ConvIds
         /\ ~conversations[c].isGroup
         /\ \E u \in others :
              \/ EdgeExists(me, u)
              \/ \E row \in privacySettings :
                   row.userId = u /\ row.whoCanMessage = "nobody"

\* the reply target is given and is missing or in another conversation
BadReplyTarget(c, r) ==
  r # 0 /\ (r \notin MsgIds \/ (r \in MsgIds /\ messages[r].conversationId # c))

\* C19: a send or sendMedia call that fails any precondition (no or hidden
\* membership, missing conversation, blocked pair, messaging disabled by
\* privacy, empty trimmed body on the text path, reply target missing or in
\* another conversation) writes nothing: every table is unchanged.
C19_FailedSendWritesNothing ==
  [][LET me == ret'.caller
         c == ret'.id
     IN  /\ ret'.op = "send" =>
              \A b \in BodyInputs, r \in 0..SendMaxMessages :
                send(me, c, b, r) =>
                  /\ (SendRefused(me, c) \/ Trim(b) = <<>> \/ BadReplyTarget(c, r))
                       => ret'.err # "ok"
                  /\ ret'.err # "ok" => UNCHANGED dbvars
         /\ ret'.op = "sendMedia" =>
              \A t \in MediaTypes, caption \in CaptionInputs, r \in 0..SendMaxMessages :
                sendMedia(me, c, t, caption, r) =>
                  /\ (SendRefused(me, c) \/ BadReplyTarget(c, r)) => ret'.err # "ok"
                  /\ ret'.err # "ok" => UNCHANGED dbvars]_vars

\* C19 witness: a send was refused for a reply target that is a message of
\* another conversation, while the caller's typing row in the conversation
\* is still stored
C19_Witness ==
  /\ ret.op = "send" /\ ret.err = "Invalid reply target"
  /\ \E m \in MsgIds : messages[m].conversationId # ret.id
  /\ Len(messages) < SendMaxMessages
  /\ \E row \in typingStatus :
       row.conversationId = ret.id /\ row.userId = ret.caller

----------------------------------------------------------------------------
(* A message into a hidden direct conversation *)

HiddenMaxTime == 3
HiddenMaxMessages == 2

HiddenInBounds == Within(HiddenMaxTime, 1, HiddenMaxMessages, 0)

InHidden(call) == Idle /\ call /\ HiddenInBounds /\ UNCHANGED clientvars

NextHidden ==
  \/ Return
  \/ Tick /\ HiddenInBounds
  \/ InHidden(getOrCreateDirectConversation("A", "B"))
  \/ \E me \in Actors : InHidden(deleteConversationForMe(me, 1))
  \/ \E me \in Actors : InHidden(send(me, 1, <<"a">>, 0))
  \/ \E me \in Actors : InHidden(markAsRead(me, 1))

SpecHidden == Init /\ [][NextHidden]_vars

\* C20: when a member of a direct conversation has hidden it and the other
\* member then successfully sends a text message in it, the membership is no
\* longer hidden and listForCurrentUser of its user holds the conversation
\* with unreadCount = 1.
C20_HiddenConversationReturns ==
  [][\A a \in Actors, b \in Actors, c \in ConvIds :
       LET bi == MembershipIdx(members, c, b)
       IN  (/\ DirectBetween(Ctx, c, a, b)
            /\ members[bi].isDeleted
            /\ ret'.op = "send" /\ ret'.err = "ok"
            /\ send(a, c, <<"a">>, 0))
             => /\ ~members'[bi].isDeleted
                /\ \E k \in 1..Len(listForCurrentUser(Ctx', b)) :
                     /\ listForCurrentUser(Ctx', b)[k].id = c
                     /\ listForCurrentUser(Ctx', b)[k].unreadCount = 1]_vars

\* the same, for a send whose Date.now() is later than the one of the hiding
C20_WhenClockAdvanced ==
  [][\A a \in Actors, b \in Actors, c \in ConvIds :
       LET bi == MembershipIdx(members, c, b)
       IN  (/\ DirectBetween(Ctx, c, a, b)
            /\ members[bi].isDeleted
            /\ now > members[bi].lastReadAt
            /\ ret'.op = "send" /\ ret'.err = "ok"
            /\ send(a, c, <<"a">>, 0))
             => /\ ~members'[bi].isDeleted
                /\ \E k \in 1..Len(listForCurrentUser(Ctx', b)) :
                     /\ listForCurrentUser(Ctx', b)[k].id = c
                     /\ listForCurrentUser(Ctx', b)[k].unreadCount = 1]_vars

----------------------------------------------------------------------------
(* Sends in a group *)

\* C21: un-hiding other members on send happens only in direct
\* conversations: a successful send or sendMedia in a group leaves the
\* isDeleted flag of every other member unchanged, so a member removed with
\* removeGroupMember stays removed until addGroupMembers re-adds them.
C21_GroupSendKeepsRemoved ==
  [][(/\ ret'.op \in {"send", "sendMedia"}
      /\ ret'.err = "ok"
      /\ conversations[ret'.id].isGroup)
       => \A i \in MemberIdxOf(members, ret'.id) :
            members'[i].isDeleted = members[i].isDeleted]_vars

\* C22: every mutation that touches a conversation or one of its messages
\* (send, sendMedia, editOwnMessage, deleteOwnMessage, toggleReaction,
\* toggleStar, markAsRead, addGroupMembers, removeGroupMember,
\* updateGroupMemberRole, updateTyping), called by a user whose membership
\* row for that conversation is absent or hidden, is rejected as Not found
\* and changes no stored state.
C22_NonMemberRejected ==
  [][LET op == ret'.op
         onConversation == op \in {"send", "sendMedia", "markAsRead", "addGroupMembers",
                                   "removeGroupMember", "updateGroupMemberRole",
                                   "updateTyping"}
         onMessage == op \in {"editOwnMessage", "deleteOwnMessage", "toggleReaction",
                              "toggleStar"}
         c == IF onConversation THEN ret'.id
              ELSE IF onMessage /\ ret'.id \in MsgIds
              THEN messages[ret'.id].conversationId
              ELSE 0
         mi == MembershipIdx(members, c, ret'.caller)
     IN  (c \in ConvIds /\ (mi = 0 \/ members[mi].isDeleted))
           => (ret'.err = "Not found" /\ UNCHANGED dbvars)]_vars

----------------------------------------------------------------------------
(* Reads of a conversation by users who are not members of it *)

ReadMaxTime == 2
ReadMaxMessages == 2

ReadInBounds == Within(ReadMaxTime, 1, ReadMaxMessages, 0)

InRead(call) == Idle /\ call /\ ReadInBounds /\ UNCHANGED clientvars

NextRead ==
  \/ Return
  \/ Tick /\ ReadInBounds
  \/ InRead(createGroupConversation("A", <<"g">>, <<"B", "C">>))
  \/ \E me \in {"B", "C"} : InRead(send(me, 1, <<"a">>, 0))
  \/ \E me \in {"B", "C"}, m \in 1..ReadMaxMessages : InRead(toggleStar(me, m))
  \/ \E me \in {"B", "C"}, isTyping \in BOOLEAN : InRead(updateTyping(me, 1, isTyping))
  \/ \E t \in {"B", "C"} : InRead(removeGroupMember("A", 1, t))
  \/ InRead(deleteConversationForMe("C", 1))

SpecRead == Init /\ [][NextRead]_vars

\* C23: no read returns data of a conversation to a user whose membership
\* row for it is absent or hidden: list, getConversation, listGroupMembers,
\* searchInConversation, getEditHistory and listTypingUsers fail with Not
\* found, and listForCurrentUser, searchGlobal and listStarred omit the
\* conversation and its messages.
C23_NoReadForNonMember ==
  \A me \in Users, c \in ConvIds :
    LET mi == MembershipIdx(members, c, me)
    IN  (mi = 0 \/ members[mi].isDeleted) =>
          /\ list(Ctx, me, c, 0, NotGiven) = NotFound
          /\ getConversation(Ctx, me, c) = NotFound
          /\ listGroupMembers(Ctx, me, c) = NotFound
          /\ searchInConversation(Ctx, me, c, <<>>, "none", "-", 0, 0) = NotFound
          /\ \A m \in MsgIds :
               messages[m].conversationId = c => getEditHistory(Ctx, me, m) = NotFound
          /\ listTypingUsers(Ctx, me, c, now) = NotFound
          /\ ~InList(listForCurrentUser(Ctx, me), c)
          /\ \A row \in searchGlobal(Ctx, me, <<>>, "none", "-", 0, 0) :
               row.conversationId # c
          /\ \A row \in listStarred(Ctx, me, 0) : row.conversationId # c

----------------------------------------------------------------------------
(* The whoCanMessage setting *)

PrivacyMaxConversations == 2
PrivacyMaxMessages == 2

PrivacyInBounds == Within(1, PrivacyMaxConversations, PrivacyMaxMessages, 0)

InPrivacy(call) == Idle /\ call /\ PrivacyInBounds /\ UNCHANGED clientvars

NextPrivacy ==
  \/ Return
  \/ \E me \in Actors, other \in Actors :
       InPrivacy(getOrCreateDirectConversation(me, other))
  \/ InPrivacy(createGroupConversation("A", <<"g">>, <<"B", "C">>))
  \/ \E me \in Actors, w \in WhoCanMessageInputs :
       InPrivacy(updateMyPrivacySettings(me, NotGiven, NotGiven, Given(w)))
  \/ \E me \in Actors, c \in 1..PrivacyMaxConversations :
       InPrivacy(send(me, c, <<"a">>, 0))
  \/ \E me \in Actors, c \in 1..PrivacyMaxConversations :
       InPrivacy(sendMedia(me, c, "image", <<>>, 0))

SpecPrivacy == Init /\ [][NextPrivacy]_vars

\* the stored setting of the user is whoCanMessage = nobody
AcceptsNobody(u) ==
  \E row \in privacySettings : row.userId = u /\ row.whoCanMessage = "nobody"

\* C24: while either user of a pair has whoCanMessage = nobody,
\* getOrCreateDirectConversation between them and send / sendMedia in their
\* direct conversation fail and write nothing; the setting is read at each
\* call, whatever it was when the conversation was made; a send by a member
\* of a group succeeds whatever the settings are.
C24_NobodyStopsDirectMessaging ==
  [][LET me == ret'.caller
         c == ret'.id
         sending == ret'.op \in {"send", "sendMedia"} /\ c \in ConvIds
         mi == MembershipIdx(members, c, me)
         pair == {members[i].userId : i \in MemberIdxOf(members, c)} \cup {me}
     IN  /\ (/\ ret'.op = "getOrCreateDirectConversation"
             /\ AcceptsNobody(me) \/ AcceptsNobody(ret'.other))
              => (ret'.err # "ok" /\ UNCHANGED dbvars)
         /\ (/\ sending
             /\ ~conversations[c].isGroup
             /\ \E u \in pair : AcceptsNobody(u))
              => (ret'.err # "ok" /\ UNCHANGED dbvars)
         /\ (/\ sending
             /\ conversations[c].isGroup
             /\ mi # 0 /\ ~members[mi].isDeleted)
              => (ret'.err = "ok" /\ Len(messages') = Len(messages) + 1)]_vars

\* C24 witness: a send in a direct conversation that already holds a message
\* was refused because of the sender's own setting
C24_Witness ==
  /\ ret.op = "send"
  /\ ret.err = "Messaging disabled by privacy settings"
  /\ AcceptsNobody(ret.caller)
  /\ \A u \in Users \ {ret.caller} : ~AcceptsNobody(u)
  /\ \E m \in MsgIds : messages[m].conversationId = ret.id

----------------------------------------------------------------------------
(* The upload queue's state machine *)

QueueMaxItems == 3
QueueMaxCalls == 6

\* an image of exactly the largest accepted size, and a video over its limit
QueueFileInputs ==
  {File("image", "png", MAX_IMAGE_BYTES), File("video", "mp4", 25 * 1024 * 1024)}

ProgressInputs == {50}
UploadSteps == {"generateUploadUrl", "uploadFileWithProgress", "sendMedia"}

\* the bounds of the queue's specifications: items enqueued, server calls made
QueueWithin(maxItems, maxCalls) ==
  /\ issued'.items <= maxItems
  /\ Len(uploadLog') <= maxCalls

QueueInBounds == QueueWithin(QueueMaxItems, QueueMaxCalls)

NextQueue ==
  \/ \E file \in QueueFileInputs : handlePickMedia(file) /\ QueueInBounds
  \/ \E c \in 0..1 : selectConversation(c)
  \/ processQueue /\ QueueInBounds
  \/ generateUploadUrlResolved /\ QueueInBounds
  \/ \E p \in ProgressInputs : onProgress(p)
  \/ uploadFileWithProgressResolved /\ QueueInBounds
  \/ sendMediaResolved
  \/ \E step \in UploadSteps : processQueueCatch(step)
  \/ \E id \in 1..QueueMaxItems : handleRetryUpload(id)
  \/ \E id \in 1..QueueMaxItems : handleRemoveUploadItem(id)
  \/ handleClearUploadQueue

SpecQueue == Init /\ [][NextQueue]_vars

\* the status changes the queue may make
StatusChanges ==
  {<<"queued", "uploading">>, <<"uploading", "completed">>, <<"uploading", "failed">>,
   <<"queued", "failed">>, <<"failed", "queued">>}

\* C25: every status change of an upload queue item is queued -> uploading,
\* uploading -> completed, uploading -> failed, queued -> failed or
\* failed -> queued, so a completed item never changes status again; and an
\* item leaves the queue only while its status is completed or failed.
C25_QueueTransitions ==
  [][\A k \in 1..Len(uploadQueue) :
       LET item == uploadQueue[k]
           j == ItemIdx(uploadQueue', item.id)
       IN  IF j = 0
           THEN item.status \in {"completed", "failed"}
           ELSE \/ uploadQueue'[j].status = item.status
                \/ <<item.status, uploadQueue'[j].status>> \in StatusChanges]_vars

\* C25 witness: an item whose commit was attempted is queued again (it failed
\* and was retried), beside a completed item, after an item was removed
C25_Witness ==
  /\ \E k \in 1..Len(uploadQueue) :
       /\ uploadQueue[k].status = "queued"
       /\ \E r \in 1..Len(uploadLog) :
            uploadLog[r].call = "sendMedia" /\ uploadLog[r].itemId = uploadQueue[k].id
  /\ \E k \in 1..Len(uploadQueue) : uploadQueue[k].status = "completed"
  /\ Len(uploadQueue) < issued.items

\* the indices of the items being uploaded
Uploading(queue) == {k \in 1..Len(queue) : queue[k].status = "uploading"}

\* C26: at any time at most one upload queue item has status uploading,
\* under every interleaving of enqueue, progress, retry, remove, clear and
\* conversation selection with the upload's steps; and the item moved to
\* uploading is the earliest-enqueued item whose status is queued.
C26_OneUploadFifo ==
  /\ [](Cardinality(Uploading(uploadQueue)) <= 1)
  /\ [][\A j \in Uploading(uploadQueue') :
          LET id == uploadQueue'[j].id
              k == ItemIdx(uploadQueue, id)
          IN  (k = 0 \/ uploadQueue[k].status # "uploading") =>
                /\ k # 0
                /\ uploadQueue[k].status = "queued"
                /\ \A i \in 1..Len(uploadQueue) :
                     uploadQueue[i].status = "queued" => id <= uploadQueue[i].id]_vars

\* C26 witness: an item is being uploaded while an item enqueued before it
\* has failed and an item enqueued after it is queued
C26_Witness ==
  \E k \in Uploading(uploadQueue) :
    /\ \E i \in 1..Len(uploadQueue) :
         uploadQueue[i].id < uploadQueue[k].id /\ uploadQueue[i].status = "failed"
    /\ \E i \in 1..Len(uploadQueue) :
         uploadQueue[i].id > uploadQueue[k].id /\ uploadQueue[i].status = "queued"

----------------------------------------------------------------------------
(* The client-side checks of a file *)

ValidateMaxItems == 2
ValidateMaxCalls == 3

\* files at and just over each ceiling, the 25MB video, and files that are
\* not media
ValidateFileInputs ==
  {File("image", "png", MAX_IMAGE_BYTES), File("image", "png", MAX_IMAGE_BYTES + 1),
   File("video", "mp4", MAX_VIDEO_BYTES), File("video", "mp4", 25 * 1024 * 1024),
   File("audio", "mpeg", MAX_AUDIO_BYTES), File("audio", "mpeg", MAX_AUDIO_BYTES + 1),
   File("application", "pdf", 1024), File("", "", 1024)}

ValidateInBounds == QueueWithin(ValidateMaxItems, ValidateMaxCalls)

NextValidate ==
  \/ \E file \in ValidateFileInputs : handlePickMedia(file) /\ ValidateInBounds
  \/ \E size \in {MAX_AUDIO_BYTES, MAX_AUDIO_BYTES + 1} :
       handleToggleRecording(size) /\ ValidateInBounds
  \/ selectConversation(1)
  \/ processQueue /\ ValidateInBounds
  \/ generateUploadUrlResolved /\ ValidateInBounds
  \/ uploadFileWithProgressResolved /\ ValidateInBounds
  \/ sendMediaResolved
  \/ \E step \in UploadSteps : processQueueCatch(step)
  \/ \E id \in 1..ValidateMaxItems : handleRetryUpload(id)
  \/ \E id \in 1..ValidateMaxItems : handleRemoveUploadItem(id)

SpecValidate == Init /\ [][NextValidate]_vars

\* the file is not an image, a video or an audio file, or is larger than
\* the ceiling of its class
Rejected(file) ==
  LET class == file.type[1]
  IN  \/ class \notin {"image", "video", "audio"}
      \/ class = "image" /\ file.size > MAX_IMAGE_BYTES
      \/ class = "video" /\ file.size > MAX_VIDEO_BYTES
      \/ class = "audio" /\ file.size > MAX_AUDIO_BYTES

\* C27: an enqueued file that violates the client-side checks (not image,
\* video or audio; image over 10MB, video over 20MB, audio over 12MB) goes
\* from queued to failed with a reason, never to uploading, and no call of
\* generateUploadUrl, the byte transfer or sendMedia is made for it; a file
\* of exactly its ceiling's size is not rejected.
C27_RejectedFilesNeverUpload ==
  /\ [](\A r \in 1..Len(uploadLog) : ~Rejected(uploadLog[r].file))
  /\ [](\A k \in 1..Len(uploadQueue) :
          Rejected(uploadQueue[k].file) =>
            uploadQueue[k].status \in {"queued", "failed"})
  /\ [][\A k \in 1..Len(uploadQueue) :
          LET item == uploadQueue[k]
              j == ItemIdx(uploadQueue', item.id)
          IN  (item.status = "queued" /\ j # 0 /\ uploadQueue'[j].status # "queued") =>
                IF Rejected(item.file)
                THEN /\ uploadQueue'[j].status = "failed"
                     /\ uploadQueue'[j].error # ""
                     /\ uploadLog' = uploadLog
                ELSE /\ uploadQueue'[j].status = "uploading"
                     /\ uploadLog' # uploadLog]_vars

\* C27 witness: the 25MB video has failed with the size reason and no call
\* was made for it, beside a video of exactly 20MB that is being uploaded
C27_Witness ==
  /\ \E k \in 1..Len(uploadQueue) :
       /\ uploadQueue[k].file = File("video", "mp4", 25 * 1024 * 1024)
       /\ uploadQueue[k].status = "failed"
       /\ uploadQueue[k].error = "Video is too large. Max size is 20MB."
       /\ \A r \in 1..Len(uploadLog) : uploadLog[r].itemId # uploadQueue[k].id
  /\ \E k \in 1..Len(uploadQueue) :
       /\ uploadQueue[k].file = File("video", "mp4", MAX_VIDEO_BYTES)
       /\ uploadQueue[k].status = "uploading"

\* the rows of the log that made this call
CallsOf(call) == {r \in 1..Len(uploadLog) : uploadLog[r].call = call}

\* every item but this one is the same in both queues
OthersUnchanged(id) ==
  /\ Len(uploadQueue') = Len(uploadQueue)
  /\ \A k \in 1..Len(uploadQueue) :
       uploadQueue[k].id # id => uploadQueue'[k] = uploadQueue[k]

\* C28: when a step of an upload attempt fails (acquiring the upload target,
\* the byte transfer, or the sendMedia commit) the item becomes failed; a
\* retry queues the item again and its next attempt runs all three steps,
\* with an upload target and a storage id no earlier attempt used; neither
\* the failure nor the retry changes any other queue item.
C28_FailedAttemptRetriedWhole ==
  /\ [][\A step \in UploadSteps :
          processQueueCatch(step) =>
            LET id == upload.item.id
                j == ItemIdx(uploadQueue', id)
            IN  /\ j # 0
                /\ uploadQueue'[j].status = "failed"
                /\ OthersUnchanged(id)]_vars
  /\ [][\A id \in 1..QueueMaxItems :
          handleRetryUpload(id) =>
            /\ uploadQueue'[ItemIdx(uploadQueue', id)].status = "queued"
            /\ OthersUnchanged(id)
            /\ uploadLog' = uploadLog]_vars
  /\ [](/\ \A r \in CallsOf("uploadFileWithProgress") :
             /\ r - 1 \in CallsOf("generateUploadUrl")
             /\ uploadLog[r - 1].itemId = uploadLog[r].itemId
        /\ \A r \in CallsOf("sendMedia") :
             /\ r - 1 \in CallsOf("uploadFileWithProgress")
             /\ uploadLog[r - 1].itemId = uploadLog[r].itemId
        /\ \A r1, r2 \in CallsOf("uploadFileWithProgress") :
             r1 # r2 => uploadLog[r1].uploadUrl # uploadLog[r2].uploadUrl
        /\ \A r1, r2 \in CallsOf("sendMedia") :
             r1 # r2 => uploadLog[r1].storageId # uploadLog[r2].storageId)
  /\ [][\A k \in 1..Len(uploadQueue) :
          LET item == uploadQueue[k]
              j == ItemIdx(uploadQueue', item.id)
          IN  (item.status = "queued" /\ j # 0 /\ uploadQueue'[j].status = "uploading") =>
                /\ Len(uploadLog') = Len(uploadLog) + 1
                /\ uploadLog'[Len(uploadLog')].call = "generateUploadUrl"
                /\ uploadLog'[Len(uploadLog')].itemId = item.id]_vars

\* C28 witness: an item whose commit failed was retried and its second
\* attempt has reached the commit, beside another item that has failed
C28_Witness ==
  /\ upload.step = "sendMedia"
  /\ \E r \in CallsOf("sendMedia") :
       /\ r < Len(uploadLog)
       /\ uploadLog[r].itemId = upload.item.id
  /\ \E k \in 1..Len(uploadQueue) :
       uploadQueue[k].id # upload.item.id /\ uploadQueue[k].status = "failed"

----------------------------------------------------------------------------
(* The caption and reply target of a queue item *)

ComposeMaxItems == 2
ComposeMaxCalls == 4

DraftInputs == {<<>>, <<"c", " ">>}
ReplyToInputs == 0..1

ComposeInBounds == QueueWithin(ComposeMaxItems, ComposeMaxCalls)

NextCompose ==
  \/ selectConversation(1)
  \/ \E text \in DraftInputs : typeDraft(text)
  \/ \E m \in ReplyToInputs : chooseReply(m)
  \/ handlePickMedia(File("image", "png", 1024)) /\ ComposeInBounds
  \/ handleToggleRecording(1024) /\ ComposeInBounds
  \/ processQueue /\ ComposeInBounds
  \/ generateUploadUrlResolved /\ ComposeInBounds
  \/ uploadFileWithProgressResolved /\ ComposeInBounds
  \/ sendMediaResolved
  \/ \E step \in UploadSteps : processQueueCatch(step)
  \/ \E id \in 1..ComposeMaxItems : handleRetryUpload(id)

SpecCompose == Init /\ [][NextCompose]_vars

\* C29: for every enqueued item, a picked file and a finished voice
\* recording alike, the caption and reply target are the trimmed draft and
\* the reply selection at the moment the item was enqueued, no later step
\* changes them, and sendMedia is called with them.
C29_CaptionCapturedAtEnqueue ==
  /\ [][\A j \in 1..Len(uploadQueue') :
          LET k == ItemIdx(uploadQueue, uploadQueue'[j].id)
          IN  IF k = 0
              THEN /\ uploadQueue'[j].caption = Trim(draftMessage)
                   /\ uploadQueue'[j].replyToMessageId = replyToMessage
              ELSE /\ uploadQueue'[j].caption = uploadQueue[k].caption
                   /\ uploadQueue'[j].replyToMessageId =
                        uploadQueue[k].replyToMessageId]_vars
  /\ [](\A r \in CallsOf("sendMedia") :
          LET k == ItemIdx(uploadQueue, uploadLog[r].itemId)
          IN  k # 0 =>
                /\ uploadLog[r].caption = uploadQueue[k].caption
                /\ uploadLog[r].replyToMessageId = uploadQueue[k].replyToMessageId)

----------------------------------------------------------------------------
(* The order of the checks of send and sendMedia *)

\* the error of the earliest precondition that does not hold for a send by
\* me in conversation c ("ok" when all hold): membership, conversation,
\* block, privacy, body (checked when withBody), reply target
EarliestError(me, c, body, r, withBody) ==
  LET mi == MembershipIdx(members, c, me)
      others == {members[i].userId : i \in MemberIdxOf(members, c)} \ {me}
      direct == ~conversations[c].isGroup
  IN  IF mi = 0 THEN "Not found"
      ELSE IF members[mi].isDeleted THEN "Not found"
      ELSE IF c \notin ConvIds THEN "Not found"
      ELSE IF direct /\ \E u \in others : EdgeExists(me, u)
      THEN "Cannot send message"
      ELSE IF direct /\ others # {} /\ \E u \in others \cup {me} : AcceptsNobody(u)
      THEN "Messaging disabled by privacy settings"
      ELSE IF withBody /\ Trim(body) = <<>> THEN "Message cannot be empty"
      ELSE IF BadReplyTarget(c, r) THEN "Invalid reply target"
      ELSE "ok"

\* C30: when a send call violates several preconditions at once, the error
\* it reports is that of the earliest violated one in the order membership,
\* conversation, block, privacy, non-empty body, reply target; sendMedia
\* follows the same order without the body check.
C30_EarliestErrorReported ==
  [][LET me == ret'.caller
         c == ret'.id
     IN  /\ ret'.op = "send" =>
              \A b \in {<<"a">>, <<" ">>}, r \in 0..SendMaxMessages :
                send(me, c, b, r) => ret'.err = EarliestError(me, c, b, r, TRUE)
         /\ ret'.op = "sendMedia" =>
              \A r \in 0..SendMaxMessages :
                sendMedia(me, c, "image", <<>>, r) =>
                  ret'.err = EarliestError(me, c, <<>>, r, FALSE)]_vars

\* C30 witness: a send was refused as blocked while the other member also
\* accepts messages from nobody and the reply target 1 is a message of
\* another conversation
C30_Witness ==
  /\ ret.op = "send"
  /\ ret.err = "Cannot send message"
  /\ \E u \in Users \ {ret.caller} :
       /\ MembershipIdx(members, ret.id, u) # 0
       /\ AcceptsNobody(u)
  /\ BadReplyTarget(ret.id, 1)

----------------------------------------------------------------------------
(* What a successful send writes besides the message *)

SummaryMaxTime == 3
SummaryMaxMessages == 2

SummaryInBounds == Within(SummaryMaxTime, 1, SummaryMaxMessages, 0)

InSummary(call) == Idle /\ call /\ SummaryInBounds /\ UNCHANGED clientvars

NextSummary ==
  \/ Return
  \/ Tick /\ SummaryInBounds
  \/ InSummary(getOrCreateDirectConversation("A", "B"))
  \/ \E me \in Actors, on \in BOOLEAN : InSummary(updateTyping(me, 1, on))
  \/ \E me \in Actors, b \in {<<"a", " ">>, <<" ">>}, r \in 0..1 :
       InSummary(send(me, 1, b, r))
  \/ \E me \in Actors, t \in {"image", "audio"}, b \in CaptionInputs, r \in 0..1 :
       InSummary(sendMedia(me, 1, t, b, r))
  \/ InSummary(deleteOwnMessage("A", 1))

SpecSummary == Init /\ [][NextSummary]_vars

\* text ends with the run of characters tail
EndsWith(text, tail) ==
  /\ Len(tail) <= Len(text)
  /\ SubSeq(text, Len(text) - Len(tail) + 1, Len(text)) = tail

\* the conversation's summary line shows this message: a text message by its
\* body (after the reply marker when it is a reply), a media message by the
\* sign of its media type, then its caption or the name of the media type
Describes(text, message) ==
  IF message.mediaType = "none"
  THEN /\ EndsWith(text, message.body)
       /\ (message.replyToMessageId = 0 => text = message.body)
       /\ (message.replyToMessageId # 0 =>
             SubSeq(text, 1, Len(ReplyGlyph)) = ReplyGlyph)
  ELSE text = MediaGlyph(message.mediaType) \o <<" ">> \o
              (IF message.body # <<>> THEN message.body
               ELSE MediaWord(message.mediaType))

\* C31: a successful send or sendMedia at time t appends a message with
\* createdAt = t and, in the same step, sets the conversation's updatedAt and
\* lastMessageAt to t and its lastMessageText to a description of that message,
\* sets the sender's lastReadAt to t, so that the sender's unread count of the
\* conversation is 0, and leaves no typingStatus row of the sender for the
\* conversation.
C31_SendSideEffects ==
  [][(ret'.op \in {"send", "sendMedia"} /\ ret'.err = "ok") =>
       LET me == ret'.caller
           c == ret'.id
           t == now
           m == Len(messages')
           mi == MembershipIdx(members', c, me)
           rows == listForCurrentUser(Ctx', me)
       IN  /\ Len(messages') = Len(messages) + 1
           /\ messages'[m].conversationId = c
           /\ messages'[m].senderId = me
           /\ messages'[m].createdAt = t
           /\ conversations'[c].updatedAt = t
           /\ conversations'[c].lastMessageAt = t
           /\ Describes(conversations'[c].lastMessageText, messages'[m])
           /\ mi # 0
           /\ members'[mi].lastReadAt = t
           /\ \A k \in 1..Len(rows) : rows[k].id = c => rows[k].unreadCount = 0
           /\ ~\E r \in typingStatus' : r.conversationId = c /\ r.userId = me]_vars

\* C31 witness: a send has just succeeded at a time later than the first
\* message, which the other member sent, and the other member's typing row
\* is still stored
C31_Witness ==
  /\ ret.op \in {"send", "sendMedia"} /\ ret.err = "ok"
  /\ now > 1
  /\ Len(messages) = 2
  /\ messages[1].senderId # ret.caller
  /\ messages[1].createdAt < now
  /\ messages[2].createdAt = now
  /\ \E r \in typingStatus : r.userId # ret.caller
  /\ InList(listForCurrentUser(Ctx, ret.caller), ret.id)

----------------------------------------------------------------------------
(* Opening a direct conversation that exists already *)

ReuseMaxTime == 3
ReuseMaxConversations == 2
ReuseMaxMessages == 1

ReuseInBounds == Within(ReuseMaxTime, ReuseMaxConversations, ReuseMaxMessages, 0)

InReuse(call) == Idle /\ call /\ ReuseInBounds /\ UNCHANGED clientvars

NextReuse ==
  \/ Return
  \/ Tick /\ ReuseInBounds
  \/ \E me \in Actors, other \in Users :
       InReuse(getOrCreateDirectConversation(me, other))
  \/ \E me \in Actors, c \in 1..ReuseMaxConversations :
       InReuse(deleteConversationForMe(me, c))
  \/ \E me \in Actors, c \in 1..ReuseMaxConversations :
       InReuse(send(me, c, <<"a">>, 0))
  \/ \E c \in 1..ReuseMaxConversations : InReuse(markAsRead("B", c))

SpecReuse == Init /\ [][NextReuse]_vars

\* the direct conversations of the pair that are stored
ExistingDirect(a, b) ==
  {c \in ConvIds : DirectBetween(Ctx, c, a, b)
                   /\ Cardinality(MemberIdxOf(members, c)) = 2}

\* listForCurrentUser shows conversation c to u with unread messages
UnreadShown(ctx, u, c) ==
  LET rows == listForCurrentUser(ctx, u)
  IN  \E k \in 1..Len(rows) : rows[k].id = c /\ rows[k].unreadCount > 0

\* C32: a successful getOrCreateDirectConversation of a pair that has a direct
\* conversation returns it and inserts nothing; it makes the caller's hidden
\* membership visible with lastReadAt = now, leaves a visible one as it is,
\* and never changes the other member's row.  When it creates a conversation,
\* the creator's row has lastReadAt = now and the recipient's has none, and a
\* first message by the creator is then shown as unread to the recipient.
C32_ReuseOrCreate ==
  /\ [][(ret'.op = "getOrCreateDirectConversation" /\ ret'.err = "ok") =>
          LET me == ret'.caller
              other == ret'.other
              existing == ExistingDirect(me, other)
              c == ret'.val
              mi == MembershipIdx(members, c, me)
          IN  IF existing # {}
              THEN /\ c \in existing
                   /\ UNCHANGED conversations
                   /\ Len(members') = Len(members)
                   /\ \A i \in 1..Len(members) : i # mi => members'[i] = members[i]
                   /\ members'[mi] =
                        IF members[mi].isDeleted
                        THEN [members[mi] EXCEPT !.isDeleted = FALSE, !.lastReadAt = now]
                        ELSE members[mi]
              ELSE /\ c = Len(conversations) + 1
                   /\ Len(conversations') = c
                   /\ ~conversations'[c].isGroup
                   /\ SubSeq(members', 1, Len(members)) = members
                   /\ {members'[i] : i \in MemberIdxOf(members', c)}
                        = {MemberRow(c, me, "member", now),
                           MemberRow(c, other, "member", 0)}]_vars
  /\ [][(ret'.op = "send" /\ ret'.err = "ok") =>
          \A i \in MemberIdxOf(members, ret'.id) :
            (/\ members[i].userId # ret'.caller
             /\ members[i].lastReadAt = 0
             /\ ~conversations[ret'.id].isGroup)
              => UnreadShown(Ctx', members[i].userId, ret'.id)]_vars

\* C32 witness: the caller has just reopened, at a later time, the direct
\* conversation it had hidden, while the other member's row is hidden too
C32_Witness ==
  /\ ret.op = "getOrCreateDirectConversation" /\ ret.err = "ok"
  /\ ret.val \in ExistingDirect(ret.caller, ret.other)
  /\ now > 1
  /\ LET mi == MembershipIdx(members, ret.val, ret.caller)
         oi == MembershipIdx(members, ret.val, ret.other)
     IN  /\ ~members[mi].isDeleted
         /\ members[mi].lastReadAt = now
         /\ members[oi].isDeleted
         /\ conversations[ret.val].updatedAt < now

----------------------------------------------------------------------------
(* The merged message list of the open conversation *)

\* two older pages of 40 rows and the live page need 81 messages; the viewer
\* opens the conversation once it holds HistoryOpenFrom messages
HistoryMaxMessages == 81
HistoryOpenFrom == 80

\* the clock advances once between two sends, so that createdAt values differ
HistoryInBounds ==
  /\ Len(conversations') <= 1
  /\ Len(messages') <= HistoryMaxMessages
  /\ Len(messages') <= now'
  /\ now' <= Len(messages') + 1

\* the live page holds the current result of its query
LiveCurrent ==
  /\ latestMessagePage.loaded
  /\ latestMessagePage
       = ClientPage(list(Ctx, Viewer, selectedConversationId, 0,
                         Given(CLIENT_PAGE_LIMIT)))

\* a message is sent while no conversation is open or once the live page has
\* caught up with the messages sent before
InHistory(call) ==
  /\ Idle
  /\ selectedConversationId = 0 \/ LiveCurrent
  /\ call
  /\ HistoryInBounds
  /\ UNCHANGED clientvars

NextHistory ==
  \/ Return
  \/ Tick /\ HistoryInBounds
  \/ InHistory(getOrCreateDirectConversation("A", "B"))
  \/ InHistory(send("B", 1, <<"a">>, 0))
  \/ /\ Len(messages) >= HistoryOpenFrom
     /\ selectedConversationId = 0
     /\ selectConversation(1)
  \/ latestPageDelivered
  \/ onMessageListScroll
  \/ olderPageDelivered

SpecHistory == Init /\ [][NextHistory]_vars

\* C33: while a conversation is open, the merged message list holds no
\* message id twice and is in ascending createdAt order, whatever live pages
\* and older pages were delivered, two or more older pages included.
C33_MergedListOrdered ==
  selectedConversationId # 0 =>
    LET merged == MergedMessages
    IN  /\ \A i, j \in 1..Len(merged) : merged[i].id = merged[j].id => i = j
        /\ \A i \in 1..(Len(merged) - 1) :
             merged[i].createdAt <= merged[i + 1].createdAt


\* C36: while the tab holds an oldest boundary for the open conversation and
\* its live page is up to date, every message of the conversation whose
\* createdAt is not below the boundary is in the merged message list, also
\* after the live page has moved on to newer messages.
C36_NoGapAboveBoundary ==
  (selectedConversationId # 0 /\ oldestLoadedCreatedAt # 0 /\ LiveCurrent) =>
    \A m \in MsgIds :
      (/\ messages[m].conversationId = selectedConversationId
       /\ messages[m].createdAt >= oldestLoadedCreatedAt)
        => \E k \in 1..Len(MergedMessages) : MergedMessages[k].id = m

----------------------------------------------------------------------------
(* The text send that failed *)

TextMaxItems == 1

TextDraftInputs == {<<>>, <<" ", "d">>}

\* files are attached but not uploaded
TextInBounds == QueueWithin(TextMaxItems, 0)

NextText ==
  \/ \E c \in 1..2 : selectConversation(c)
  \/ \E text \in TextDraftInputs : typeDraft(text)
  \/ \E m \in ReplyToInputs : chooseReply(m)
  \/ handleSend
  \/ handleRetrySend
  \/ sendMessageResolved
  \/ sendMessageRejected
  \/ handlePickMedia(File("image", "png", 1024)) /\ TextInBounds

SpecText == Init /\ [][NextText]_vars

\* the running call of sendMessage has just resolved
SendSucceeded ==
  /\ sendCall # NoSending
  /\ sendCall' = NoSending
  /\ failedMessage' = NoPayload
  /\ sendError' = sendError

\* C34: a text send that fails leaves its payload (conversation id, body as
\* typed, reply target) in failedMessage; the payload stays there, with the
\* Retry button shown, until a send of it succeeds; handleRetrySend sends
\* exactly that payload; no other step of the tab discards it.
C34_FailedSendRetained ==
  /\ [][(sendCall.step = "handleSend" /\ sendCall' = NoSending /\ ~SendSucceeded)
          => failedMessage' = sendCall.payload]_vars
  /\ [][(sendCall = NoSending /\ sendCall'.step = "handleRetrySend")
          => (sendCall'.payload = failedMessage /\ failedMessage' = failedMessage)]_vars
  /\ [][failedMessage # NoPayload =>
          \/ failedMessage' = failedMessage
          \/ (SendSucceeded /\ sendCall.payload = failedMessage)]_vars
  /\ []((failedMessage # NoPayload /\ sendCall = NoSending) => sendError # "")

----------------------------------------------------------------------------
(* The conversation a queued file is sent to *)

LandingMaxItems == 2
LandingMaxCalls == 6

LandingInBounds == QueueWithin(LandingMaxItems, LandingMaxCalls)

\* the upload effect has an item to start with: it runs after the render,
\* before the next event of the user is handled
EffectPending ==
  /\ ~isUploadingMedia
  /\ Len(uploadQueue) # 0
  /\ selectedConversationId # 0
  /\ FirstQueued(uploadQueue) # 0

\* the file attached while conversation c is open has a size of c bytes, so
\* that a row of uploadLog tells where its file was attached
NextLanding ==
  \/ \E c \in 1..2 : ~EffectPending /\ selectConversation(c)
  \/ \E c \in 1..2 :
       /\ ~EffectPending
       /\ selectedConversationId = c
       /\ handlePickMedia(File("image", "png", c))
       /\ LandingInBounds
  \/ processQueue /\ LandingInBounds
  \/ generateUploadUrlResolved /\ LandingInBounds
  \/ uploadFileWithProgressResolved /\ LandingInBounds
  \/ sendMediaResolved
  \/ \E step \in UploadSteps : processQueueCatch(step)
  \/ \E id \in 1..LandingMaxItems : ~EffectPending /\ handleRetryUpload(id)

SpecLanding == Init /\ [][NextLanding]_vars

\* C35: every sendMedia call of the upload queue names the conversation that
\* was open when its item was attached, whatever conversation is opened
\* between the attaching and the upload or before a retry.
C35_SentWhereAttached ==
  \A k \in 1..Len(uploadLog) :
    uploadLog[k].call = "sendMedia"
      => uploadLog[k].conversationId = uploadLog[k].file.size

----------------------------------------------------------------------------
(* What is still shown of a deleted message *)

EraseMaxTime == 2
EraseMaxMessages == 2
EraseMaxEdits == 1

EraseInBounds == Within(EraseMaxTime, 1, EraseMaxMessages, EraseMaxEdits)

InErase(call) == Idle /\ call /\ EraseInBounds /\ UNCHANGED clientvars

NextErase ==
  \/ Return
  \/ Tick /\ EraseInBounds
  \/ InErase(getOrCreateDirectConversation("A", "B"))
  \/ \E me \in Actors, r \in 0..1 : InErase(send(me, 1, <<"a">>, r))
  \/ \E me \in Actors, m \in 1..EraseMaxMessages : InErase(editOwnMessage(me, m, <<"b">>))
  \/ \E me \in Actors, m \in 1..EraseMaxMessages : InErase(toggleStar(me, m))
  \/ \E me \in Actors, m \in 1..EraseMaxMessages : InErase(deleteOwnMessage(me, m))

SpecErase == Init /\ [][NextErase]_vars

\* C37: once a message is deleted, no read returns a text it ever had
\* (editLog holds them) to any user: not its item of messages.list nor the
\* preview of it in a reply, no row of it in searchInConversation, searchGlobal
\* or listStarred, no previousBody of getEditHistory, and, while it is the
\* last message of its conversation, not the lastMessageText of
\* listForCurrentUser.
C37_DeletedTextGone ==
  \A m \in MsgIds : \A viewer \in Users :
    \A n \in 1..(IF messages[m].deleted THEN Len(editLog[m]) ELSE 0) :
      LET former == editLog[m][n]
          c == messages[m].conversationId
          page == list(Ctx, viewer, c, 0, NotGiven)
          found == searchInConversation(Ctx, viewer, c, <<>>, "none", "-", 0, 0)
          history == getEditHistory(Ctx, viewer, m)
          rows == listForCurrentUser(Ctx, viewer)
      IN  former # <<>> =>
            /\ page.err = "ok" =>
                 \A k \in 1..Len(page.items) :
                   /\ page.items[k].id = m => page.items[k].body # former
                   /\ \A q \in 1..Len(page.items[k].replyTo) :
                        page.items[k].replyTo[q].messageId = m
                          => page.items[k].replyTo[q].body # former
            /\ found.err = "ok" =>
                 \A k \in 1..Len(found.rows) :
                   found.rows[k].messageId = m => found.rows[k].body # former
            /\ \A row \in searchGlobal(Ctx, viewer, <<>>, "none", "-", 0, 0) :
                 row.messageId = m => row.body # former
            /\ \A row \in listStarred(Ctx, viewer, 0) :
                 row.messageId = m => row.body # former
            /\ history.err = "ok" =>
                 \A k \in 1..Len(history.edits) :
                   history.edits[k].previousBody # former
            /\ m = Len(messages) =>
                 \A k \in 1..Len(rows) :
                   rows[k].id = c => ~EndsWith(rows[k].lastMessageText, former)

----------------------------------------------------------------------------
(* Who is reported as online *)

\* two windows and three steps more
PresenceMaxTime == 60003
PresenceWaits == {ONLINE_WINDOW, ONLINE_WINDOW + 1}

PresenceInBounds == now' <= PresenceMaxTime

InPresence(call) == Idle /\ call /\ PresenceInBounds /\ UNCHANGED clientvars

NextPresence ==
  \/ Return
  \/ \E ms \in PresenceWaits : Elapse(ms) /\ PresenceInBounds
  \/ \E me \in Actors : InPresence(heartbeat(me))
  \/ \E me \in Actors, visibility \in {"everyone", "nobody"} :
       InPresence(updateMyPrivacySettings(me, NotGiven, Given(visibility), NotGiven))

SpecPresence == Init /\ [][NextPresence]_vars

\* C38: a user whose lastSeenVisibility is nobody is reported as online to no
\* other user, whatever heartbeats they sent: they are not among onlineUsers
\* and their row of listUsers has isOnline false.
C38_HiddenPresence ==
  \A user \in Users : \A viewer \in Users \ {user} :
    getOrCreatePrivacySettings(Ctx, user).lastSeenVisibility = "nobody" =>
      /\ user \notin onlineUsers(Ctx, viewer, now)
      /\ \A row \in listUsers(Ctx, viewer, now) : row.id = user => ~row.isOnline

----------------------------------------------------------------------------
(* Who moves a member's read mark *)

MarkMaxTime == 2
MarkMaxConversations == 2
MarkMaxMessages == 1

MarkInBounds == Within(MarkMaxTime, MarkMaxConversations, MarkMaxMessages, 0)

InMark(call) == Idle /\ call /\ MarkInBounds /\ UNCHANGED clientvars

NextMark ==
  \/ Return
  \/ Tick /\ MarkInBounds
  \/ InMark(createGroupConversation("A", <<"g">>, <<"B", "C">>))
  \/ \E me \in Actors : InMark(getOrCreateDirectConversation(me, "C"))
  \/ \E me \in Actors, c \in 1..MarkMaxConversations : InMark(markAsRead(me, c))
  \/ \E me \in Actors, c \in 1..MarkMaxConversations : InMark(send(me, c, <<"a">>, 0))
  \/ \E me \in Actors, c \in 1..MarkMaxConversations :
       InMark(deleteConversationForMe(me, c))
  \/ \E me \in Actors, t \in {"B", "C"} : InMark(removeGroupMember(me, 1, t))
  \/ \E me \in Actors : InMark(addGroupMembers(me, 1, <<"C">>))

SpecMark == Init /\ [][NextMark]_vars

\* C39: the lastReadAt of a membership row never decreases, and it changes
\* only in a step that is a call of the row's own user; a call of another
\* user leaves it as it is.
C39_OwnReadMark ==
  [][\A i \in 1..Len(members) :
       /\ members'[i].lastReadAt >= members[i].lastReadAt
       /\ members'[i].lastReadAt # members[i].lastReadAt
            => ret'.caller = members[i].userId]_vars

----------------------------------------------------------------------------
(* The queue drains *)

LiveMaxItems == 2
LiveMaxCalls == 4

\* The events of the user wait until the pending upload effect has run; a
\* retry is offered while fewer than LiveMaxCalls server calls were made.
NextLive ==
  \/ \E c \in 1..2 : ~EffectPending /\ selectConversation(c)
  \/ /\ ~EffectPending
     /\ handlePickMedia(File("image", "png", 1024))
     /\ issued'.items <= LiveMaxItems
  \/ processQueue
  \/ generateUploadUrlResolved
  \/ uploadFileWithProgressResolved
  \/ sendMediaResolved
  \/ \E step \in UploadSteps : processQueueCatch(step)
  \/ \E id \in 1..LiveMaxItems :
       ~EffectPending /\ Len(uploadLog) < LiveMaxCalls /\ handleRetryUpload(id)
  \/ \E id \in 1..LiveMaxItems : ~EffectPending /\ handleRemoveUploadItem(id)
  \/ ~EffectPending /\ handleClearUploadQueue

\* the effect runs once its dependencies have changed, and every awaited call
\* resolves or rejects
LiveFairness ==
  /\ WF_vars(processQueue)
  /\ WF_vars(generateUploadUrlResolved \/ processQueueCatch("generateUploadUrl"))
  /\ WF_vars(uploadFileWithProgressResolved
             \/ processQueueCatch("uploadFileWithProgress"))
  /\ WF_vars(sendMediaResolved \/ processQueueCatch("sendMedia"))

SpecLive == Init /\ [][NextLive]_vars /\ LiveFairness

\* the status of the item, "none" when the queue does not hold it
StatusOfItem(id) ==
  IF ItemIdx(uploadQueue, id) = 0 THEN "none"
  ELSE uploadQueue[ItemIdx(uploadQueue, id)].status

=============================================================================
